---- MODULE Spec2Model ----
(***************************************************************************)
(* Model of the bot-verification subsystem of auth-api:                    *)
(*   - the Turnstile Gate middleware (src/src/middleware/turnstile.ts),    *)
(*   - the Turnstile Verifier with its single-use result cache             *)
(*     (lib/turnstile.ts, kept as src/unnamed/part_015 lines 1-140),       *)
(*   - the key-value store entries the Verifier reads, deletes and writes. *)
(*   - the CacheService of src/src/lib/cache.ts: prefixed keys, JSON       *)
(*     serialization, hit/miss counters and the store calls it issues,     *)
(*   - the signal handlers src/src/lib/redis.ts installs on the process.   *)
(* Every request handler is a process p; an await in the code is a step    *)
(* boundary of the model.                                                  *)
(***************************************************************************)
EXTENDS Integers, Sequences, FiniteSets, TLC

VARIABLES
  env,    \* process.env: the four variables the subsystem reads
  store,  \* the key-value store: cache key -> entry
  pc,     \* per handler: where it is suspended
  call,   \* per handler: the verifyTurnstileToken call in progress / last finished
  gate,   \* per handler: the validateTurnstileToken request in progress / last finished
  log,    \* the latest consecutive finished Verifier calls that share token and IP
  cache,  \* the CacheService instance: its prefix and its hits/misses counters
  redis,  \* the key-value store under string keys: full key -> entry
  cop,    \* per caller: the CacheService operation in progress / last finished
  sig     \* the cleanup-handler state of lib/redis.ts and the listeners of the process

vvars == <<env, store, pc, call, gate, log>>
cvars == <<cache, redis, cop>>
vars == <<env, store, pc, call, gate, log, cache, redis, cop, sig>>

(***************************************************************************)
(* JavaScript values.  A value is a record of its typeof tag and a         *)
(* sequence of characters.                                                 *)
(***************************************************************************)
Str(cs)   == [t |-> "string", v |-> cs]
Undefined == [t |-> "undefined", v |-> <<>>]
Null      == [t |-> "object", v |-> <<"null">>]
Num(d)    == [t |-> "number", v |-> <<d>>]
Bool(b)   == [t |-> "boolean", v |-> IF b THEN <<"true">> ELSE <<"false">>]

\* numbers carry the characters of their decimal form; arrays and plain
\* objects carry their own tag (typeof gives "object" for both)
NumD(ds)  == [t |-> "number", v |-> ds]
JArr(es)  == [t |-> "array", v |-> es]
JObj(fs)  == [t |-> "dict", v |-> fs]

\* ToBoolean: "", 0, -0, NaN, false, null and undefined are falsy; every
\* array and every object is truthy
Truthy(x) ==
  CASE x.t = "string" -> x.v # <<>>
    [] x.t = "number" -> x.v \notin {<<"0">>, <<"-", "0">>, <<"NaN">>}
    [] x.t = "boolean" -> x.v = <<"true">>
    [] x.t \in {"array", "dict"} -> TRUE
    [] OTHER -> FALSE

\* a || b
OrElse(a, b) == IF Truthy(a) THEN a ELSE b

Rep(n, c) == [i \in 1..n |-> c]

\* String.prototype.substring(0, n)
Substring0(cs, n) == SubSeq(cs, 1, IF Len(cs) < n THEN Len(cs) ELSE n)

STrue       == Str(<<"t", "r", "u", "e">>)
SFalse      == Str(<<"f", "a", "l", "s", "e">>)
SProduction == Str(<<"production">>)
SDevelop    == Str(<<"development">>)
SUnknown    == Str(<<"unknown">>)
SSecret     == Str(<<"sk">>)
SEmpty      == Str(<<>>)

(***************************************************************************)
(* Program constants                                                       *)
(***************************************************************************)
TURNSTILE_CACHE_TTL == 600
TokenPrefixLen == 32

(***************************************************************************)
(* Inputs.  TokA and TokB differ only after their first 32 characters,     *)
(* TokC is shorter than 32 characters.                                     *)
(***************************************************************************)
TokA == Str(Rep(TokenPrefixLen, "a") \o <<"x">>)
TokB == Str(Rep(TokenPrefixLen, "a") \o <<"y">>)
TokC == Str(<<"c">>)
\* the literal the unit tests pass as a development bypass
DevBypass == Str(<<"DEVELOPMENT_MODE_BYPASS">>)
Ip1  == Str(<<"10.0.0.1">>)
Ip2  == Str(<<"10.0.0.2">>)

ValidTokens  == {TokA, TokB, TokC}
DirectTokens == ValidTokens \cup {SEmpty, Null, Num("1")}
DirectIps    == {Undefined, SEmpty, Ip1}
SeqTokens    == {TokA, TokB, TokC, SEmpty}
SeqIps       == {Ip1}
DevIps       == {Undefined, Ip1}

Paths == {"/sign-up/email", "/sign-in/email", "/health"}
BodyTokens == {Undefined, SEmpty, Num("0"), Num("1"), JArr(<<>>), TokA}
Requests ==
  [path : Paths, hasBody : {TRUE}, token : BodyTokens,
   ip : {Undefined, Ip1}, remoteAddress : {Undefined, Ip2}]
  \cup
  [path : Paths, hasBody : {FALSE}, token : {Undefined},
   ip : {Undefined, Ip1}, remoteAddress : {Ip2}]

Envs ==
  [TURNSTILE_ENABLED : {Undefined, SFalse, STrue},
   TURNSTILE_SECRET_KEY : {Undefined, SEmpty, SSecret},
   TURNSTILE_BYPASS_TOKEN : {Undefined, TokC},
   NODE_ENV : {SProduction, SDevelop}]

Procs == {1}
\* two requests in flight at once, and the calls they may make in total
Workers == {1, 2}
MaxConcCalls == 3

(***************************************************************************)
(* Cache key derivation                                                    *)
(***************************************************************************)
\* createHash("sha256").update(x).digest("hex"): collision-free on the inputs
Sha256(cs) == <<"sha256">> \o cs

\* `turnstile:${hash}:${clientIp}`
\* slip: the client IP is left out of the key
generateCacheKey_noIp(token, clientIp) ==
  [ns |-> "turnstile:", hash |-> Sha256(Substring0(token.v, TokenPrefixLen)),
   ip |-> <<"unknown">>]

generateCacheKey(token, clientIp) ==
  [ns |-> "turnstile:", hash |-> Sha256(Substring0(token.v, TokenPrefixLen)),
   ip |-> clientIp.v]

NoKey == [ns |-> "", hash |-> <<>>, ip |-> <<>>]

CacheIps == {SUnknown, Ip1, Ip2}
Keys == {generateCacheKey(tk, ip) : tk \in ValidTokens \cup {DevBypass}, ip \in CacheIps}

\* the key as the string sent to the store: `turnstile:${hash}:${clientIp}`
TurnstileNs == <<"t", "u", "r", "n", "s", "t", "i", "l", "e", ":">>
KeyText(k) == TurnstileNs \o k.hash \o <<":">> \o k.ip

NoEntry == [val |-> Null, ttl |-> 0]
Entry(v, ttl) == [val |-> v, ttl |-> ttl]

\* redis.get(key): the stored string, or null
redisGet(s, k) == s[k].val

(***************************************************************************)
(* Remote verification API: what fetch() and response.json() produce       *)
(***************************************************************************)
Response(kind, net, ok, parse, success) ==
  [kind |-> kind, net |-> net, ok |-> ok, parse |-> parse, success |-> success]

Responses ==
  { Response("network_error", FALSE, FALSE, FALSE, Undefined),
    Response("http_error", TRUE, FALSE, FALSE, Undefined),
    Response("bad_json", TRUE, TRUE, FALSE, Undefined),
    Response("success_false", TRUE, TRUE, TRUE, Bool(FALSE)),
    Response("success_missing", TRUE, TRUE, TRUE, Undefined),
    Response("success_true", TRUE, TRUE, TRUE, Bool(TRUE)) }

\* slip: the success field of the answer is not looked at
RemoteAccepts_anyBody(resp) ==
  resp.net /\ resp.ok /\ resp.parse

\* lines 97-124: the call is accepted only when fetch resolves, response.ok,
\* the body parses and result.success is truthy
RemoteAccepts(resp) ==
  resp.net /\ resp.ok /\ resp.parse /\ Truthy(resp.success)

(***************************************************************************)
(* verifyTurnstileToken, lines 39-69: the checks made before any await     *)
(***************************************************************************)
\* slip: the token format is checked before the enabled flag
VerifyPrecheck_formatFirst(e, token) ==
  IF ~Truthy(token) \/ token.t # "string" THEN "deny"
  ELSE IF e.TURNSTILE_ENABLED # STrue THEN "allow"
  ELSE IF ~Truthy(e.TURNSTILE_SECRET_KEY) THEN "deny"
  ELSE IF /\ e.NODE_ENV # SProduction
          /\ Truthy(e.TURNSTILE_BYPASS_TOKEN)
          /\ token = e.TURNSTILE_BYPASS_TOKEN THEN "allow"
  ELSE "lookup"

\* slip: the secret key is not checked
VerifyPrecheck_noSecretCheck(e, token) ==
  IF e.TURNSTILE_ENABLED # STrue THEN "allow"
  ELSE IF ~Truthy(token) \/ token.t # "string" THEN "deny"
  ELSE IF /\ e.NODE_ENV # SProduction
          /\ Truthy(e.TURNSTILE_BYPASS_TOKEN)
          /\ token = e.TURNSTILE_BYPASS_TOKEN THEN "allow"
  ELSE "lookup"

\* slip: a malformed token is let through
VerifyPrecheck_formatAllows(e, token) ==
  IF e.TURNSTILE_ENABLED # STrue THEN "allow"
  ELSE IF ~Truthy(e.TURNSTILE_SECRET_KEY) THEN "deny"
  ELSE IF ~Truthy(token) \/ token.t # "string" THEN "allow"
  ELSE IF /\ e.NODE_ENV # SProduction
          /\ Truthy(e.TURNSTILE_BYPASS_TOKEN)
          /\ token = e.TURNSTILE_BYPASS_TOKEN THEN "allow"
  ELSE "lookup"

\* slip: the bypass token is honoured in production too
VerifyPrecheck_bypassInProd(e, token) ==
  IF e.TURNSTILE_ENABLED # STrue THEN "allow"
  ELSE IF ~Truthy(e.TURNSTILE_SECRET_KEY) THEN "deny"
  ELSE IF ~Truthy(token) \/ token.t # "string" THEN "deny"
  ELSE IF /\ Truthy(e.TURNSTILE_BYPASS_TOKEN)
          /\ token = e.TURNSTILE_BYPASS_TOKEN THEN "allow"
  ELSE "lookup"

VerifyPrecheck(e, token) ==
  IF e.TURNSTILE_ENABLED # STrue THEN "allow"
  ELSE IF ~Truthy(e.TURNSTILE_SECRET_KEY) THEN "deny"
  ELSE IF ~Truthy(token) \/ token.t # "string" THEN "deny"
  ELSE IF /\ e.NODE_ENV # SProduction
          /\ Truthy(e.TURNSTILE_BYPASS_TOKEN)
          /\ token = e.TURNSTILE_BYPASS_TOKEN THEN "allow"
  ELSE "lookup"

\* line 72
ClientIp(remoteip) == OrElse(remoteip, SUnknown)

\* lines 90-95: the form sent to the remote API
FormData(e, token, remoteip) ==
  [secret |-> e.TURNSTILE_SECRET_KEY, response |-> token,
   remoteip |-> IF Truthy(remoteip) THEN remoteip ELSE Undefined]

NoForm == [secret |-> Undefined, response |-> Undefined, remoteip |-> Undefined]

Op(name, key, ok, val, ttl) ==
  [op |-> name, key |-> key, ok |-> ok, val |-> val, ttl |-> ttl]

NoCall ==
  [st |-> "none", caller |-> "direct", token |-> Undefined, ip |-> Undefined,
   key |-> NoKey, pre |-> FALSE, ops |-> <<>>, cached |-> Null,
   remote |-> "none", form |-> NoForm, result |-> FALSE, stale |-> FALSE]

\* the call record when verifyTurnstileToken(token, remoteip) is entered
StartCall(e, s, token, remoteip, caller) ==
  LET d == VerifyPrecheck(e, token)
      k == IF d = "lookup" THEN generateCacheKey(token, ClientIp(remoteip))
           ELSE NoKey
  IN [NoCall EXCEPT !.st = "run", !.caller = caller, !.token = token,
                    !.ip = remoteip, !.key = k,
                    !.pre = IF d = "lookup" THEN s[k] # NoEntry ELSE FALSE,
                    !.result = (d = "allow")]

StartPc(e, token) == IF VerifyPrecheck(e, token) = "lookup" THEN "v_get" ELSE "v_ret"

(***************************************************************************)
(* validateTurnstileToken                                                  *)
(***************************************************************************)
\* slip: every path is gated
isAuthEndpoint_all(path) == path \in {"/sign-up/email", "/sign-in/email", "/health"}

isAuthEndpoint(path) == path = "/sign-up/email" \/ path = "/sign-in/email"

NoJson == [error |-> "", message |-> ""]
Json400 == [error |-> "Bad Request", message |-> "Turnstile verification required"]
Json403 == [error |-> "Forbidden",
            message |-> "Turnstile verification failed. Please try again."]

NoReq == [path |-> "", hasBody |-> FALSE, token |-> Undefined,
          ip |-> Undefined, remoteAddress |-> Undefined]

NoGate ==
  [st |-> "none", req |-> NoReq, bodyRead |-> FALSE, nextCalls |-> 0,
   status |-> 0, json |-> NoJson, verifier |-> <<>>, threw |-> FALSE]

\* slip: a missing token is always let through
GateDecision_lenient(e, r) ==
  IF ~isAuthEndpoint(r.path) THEN "next"
  ELSE IF ~r.hasBody THEN "throw"
  ELSE IF ~Truthy(r.token) THEN "next"
  ELSE "verify"

\* slip: a missing token is always rejected
GateDecision_strict(e, r) ==
  IF ~isAuthEndpoint(r.path) THEN "next"
  ELSE IF ~r.hasBody THEN "throw"
  ELSE IF ~Truthy(r.token) THEN "400"
  ELSE "verify"

\* lines 17-47: what the Gate does before it awaits the Verifier
GateDecision(e, r) ==
  IF ~isAuthEndpoint(r.path) THEN "next"
  ELSE IF ~r.hasBody THEN "throw"
  ELSE IF ~Truthy(r.token) THEN
         IF e.TURNSTILE_ENABLED # STrue THEN "next" ELSE "400"
  ELSE "verify"

\* line 46
GateClientIp(r) == OrElse(r.ip, r.remoteAddress)

\* slip: the return after the 403 response is missing
GateFinish_fallthrough(g, isValid) ==
  IF ~isValid
  THEN [g EXCEPT !.st = "done", !.status = 403, !.json = Json403, !.nextCalls = @ + 1]
  ELSE [g EXCEPT !.st = "done", !.nextCalls = @ + 1]

\* lines 49-60: what the Gate does with the Verifier's verdict
GateFinish(g, isValid) ==
  IF ~isValid
  THEN [g EXCEPT !.st = "done", !.status = 403, !.json = Json403]
  ELSE [g EXCEPT !.st = "done", !.nextCalls = @ + 1]

(***************************************************************************)
(* History of finished Verifier calls                                      *)
(***************************************************************************)
StoreOps == {"get", "del", "setex"}

Summary(c) ==
  [token |-> c.token, ip |-> c.ip, pre |-> c.pre,
   storeOK |-> \A i \in 1..Len(c.ops) : c.ops[i].op \in StoreOps => c.ops[i].ok,
   hit |-> \E i \in 1..Len(c.ops) : c.ops[i].op = "del" /\ c.ops[i].ok,
   fetches |-> Cardinality({i \in 1..Len(c.ops) : c.ops[i].op = "fetch"}),
   remote |-> IF c.remote = "none" THEN "none"
              ELSE IF c.remote = "success_true" THEN "accept" ELSE "reject",
   result |-> c.result]

\* keep the latest three consecutive calls that share token and IP; a call
\* during which an entry expired ends the sequence
Record(l, c) ==
  IF c.stale THEN <<>>
  ELSE IF l # <<>> /\ l[1].token = c.token /\ l[1].ip = c.ip
  THEN IF Len(l) < 3 THEN Append(l, Summary(c)) ELSE Append(Tail(l), Summary(c))
  ELSE <<Summary(c)>>

(***************************************************************************)
(* JSON.stringify and JSON.parse on the values the Cache Service stores.   *)
(* A text is a sequence of single characters.  Arrays and plain objects    *)
(* carry their own tag; an object is a sequence of <<name, value>> pairs.  *)
(***************************************************************************)
Digits == {"0", "1", "2", "3", "4", "5", "6", "7", "8", "9"}
TextTrue  == <<"t", "r", "u", "e">>
TextFalse == <<"f", "a", "l", "s", "e">>
TextNull  == <<"n", "u", "l", "l">>

\* A character is a string of length one.  A UTF-16 code unit that cannot
\* be written so (a control character other than TAB, LF, FF and CR, the
\* grave accent, or a unit above U+007E) is the six-character token \uxxxx
\* in lower-case hex.
HexLower == <<"0", "1", "2", "3", "4", "5", "6", "7", "8", "9", "a", "b", "c", "d", "e", "f">>
HexUpper == <<"0", "1", "2", "3", "4", "5", "6", "7", "8", "9", "A", "B", "C", "D", "E", "F">>
IsHex(c) == \E i \in 1..16 : c = HexLower[i] \/ c = HexUpper[i]
HexValue(c) == (CHOOSE i \in 1..16 : c = HexLower[i] \/ c = HexUpper[i]) - 1

\* the characters U+0020 .. U+007E in code order
Ascii ==
  <<" ", "!", "\"", "#", "$", "%", "&", "'", "(", ")", "*", "+", ",", "-", ".", "/",
    "0", "1", "2", "3", "4", "5", "6", "7", "8", "9", ":", ";", "<", "=", ">", "?",
    "@", "A", "B", "C", "D", "E", "F", "G", "H", "I", "J", "K", "L", "M", "N", "O",
    "P", "Q", "R", "S", "T", "U", "V", "W", "X", "Y", "Z", "[", "\\", "]", "^", "_",
    "\\u0060", "a", "b", "c", "d", "e", "f", "g", "h", "i", "j", "k", "l", "m", "n", "o",
    "p", "q", "r", "s", "t", "u", "v", "w", "x", "y", "z", "{", "|", "}", "~">>

Hex4(n) ==
  HexLower[(n \div 4096) + 1] \o HexLower[((n \div 256) % 16) + 1]
    \o HexLower[((n \div 16) % 16) + 1] \o HexLower[(n % 16) + 1]

\* the character of a code unit
CodeUnit(n) ==
  CASE n = 9 -> "\t"
    [] n = 10 -> "\n"
    [] n = 12 -> "\f"
    [] n = 13 -> "\r"
    [] n \in 32..126 -> Ascii[n - 31]
    [] OTHER -> "\\u" \o Hex4(n)

\* the characters of a string of the module, one by one
Split(str) == [i \in 1..Len(str) |-> SubSeq(str, i, i)]

IsToken(c) == Len(c) = 6 /\ SubSeq(c, 1, 2) = "\\u"
TokenCode(c) ==
  4096 * HexValue(SubSeq(c, 3, 3)) + 256 * HexValue(SubSeq(c, 4, 4))
    + 16 * HexValue(SubSeq(c, 5, 5)) + HexValue(SubSeq(c, 6, 6))

\* a character below U+0020
IsControl(c) == c \in {"\t", "\n", "\f", "\r"} \/ (IsToken(c) /\ TokenCode(c) < 32)
IsHighSurrogate(c) == IsToken(c) /\ TokenCode(c) \in 55296..56319
IsLowSurrogate(c)  == IsToken(c) /\ TokenCode(c) \in 56320..57343

DigitValue(c) == CHOOSE d \in 0..9 : ToString(d) = c

RECURSIVE DigitsValue(_, _)
DigitsValue(ds, acc) ==
  IF ds = <<>> THEN acc ELSE DigitsValue(Tail(ds), 10 * acc + DigitValue(Head(ds)))

Drop(txt, n) == SubSeq(txt, n + 1, Len(txt))

\* QuoteJSONString on one character: the two-character escapes, \u00xx for
\* the other control characters, the character itself otherwise
EscapeUnit(c) ==
  IF c = "\"" THEN <<"\\", "\"">>
  ELSE IF c = "\\" THEN <<"\\", "\\">>
  ELSE IF c = "\t" THEN <<"\\", "t">>
  ELSE IF c = "\n" THEN <<"\\", "n">>
  ELSE IF c = "\f" THEN <<"\\", "f">>
  ELSE IF c = "\r" THEN <<"\\", "r">>
  ELSE IF IsToken(c) /\ TokenCode(c) = 8 THEN <<"\\", "b">>
  ELSE IF IsToken(c) /\ TokenCode(c) < 32 THEN Split(c)
  ELSE <<c>>

\* a surrogate pair is written as it is, a lone surrogate as its \udxxx escape
RECURSIVE EscapeChars(_)
EscapeChars(cs) ==
  IF cs = <<>> THEN <<>>
  ELSE IF IsHighSurrogate(Head(cs)) /\ Len(cs) >= 2 /\ IsLowSurrogate(cs[2])
       THEN <<cs[1], cs[2]>> \o EscapeChars(Drop(cs, 2))
  ELSE IF IsHighSurrogate(Head(cs)) \/ IsLowSurrogate(Head(cs))
       THEN Split(Head(cs)) \o EscapeChars(Tail(cs))
  ELSE EscapeUnit(Head(cs)) \o EscapeChars(Tail(cs))

\* slip: a string is stored as it is
Quote_bare(cs) == cs

Quote(cs) == <<"\"">> \o EscapeChars(cs) \o <<"\"">>

\* Number::toString of a finite number: -0 prints as 0
NumberText(x) ==
  IF x.v = <<"-", "0">> THEN <<"0">>
  ELSE IF x.v \in {<<"Infinity">>, <<"-", "Infinity">>, <<"NaN">>} THEN TextNull
  ELSE x.v

RECURSIVE SerializeJSONProperty(_)
RECURSIVE JoinElems(_)
RECURSIVE JoinFields(_)

\* the elements of an array: undefined is written as null
JoinElems(es) ==
  IF es = <<>> THEN <<>>
  ELSE SerializeJSONProperty(Head(es))
       \o (IF Tail(es) = <<>> THEN <<>> ELSE <<",">> \o JoinElems(Tail(es)))

\* the fields of an object: a field whose value is undefined is left out
JoinFields(fs) ==
  LET kept == SelectSeq(fs, LAMBDA f : f[2] # Undefined)
  IN IF kept = <<>> THEN <<>>
     ELSE Quote(Head(kept)[1]) \o <<":">> \o SerializeJSONProperty(Head(kept)[2])
          \o (IF Tail(kept) = <<>> THEN <<>> ELSE <<",">> \o JoinFields(Tail(kept)))

\* the text of a value inside JSON.stringify
SerializeJSONProperty(x) ==
  CASE x.t = "string" -> Quote(x.v)
    [] x.t = "number" -> NumberText(x)
    [] x.t = "boolean" -> IF x.v = <<"true">> THEN TextTrue ELSE TextFalse
    [] x.t = "array" -> <<"[">> \o JoinElems(x.v) \o <<"]">>
    [] x.t = "dict" -> <<"{">> \o JoinFields(x.v) \o <<"}">>
    [] OTHER -> TextNull

\* JSON.stringify(value): a string, or undefined when the value is undefined
JsonStringify(x) == IF x = Undefined THEN Undefined ELSE Str(SerializeJSONProperty(x))

ParseFail == [ok |-> FALSE, val |-> Undefined, rest |-> <<>>]
Parsed(val, rest) == [ok |-> TRUE, val |-> val, rest |-> rest]

\* JSON white space: space, TAB, LF, CR
RECURSIVE SkipWs(_)
SkipWs(txt) ==
  IF txt # <<>> /\ Head(txt) \in {" ", "\t", "\n", "\r"} THEN SkipWs(Tail(txt)) ELSE txt

ParseLit(txt, lit, val) ==
  IF Len(txt) >= Len(lit) /\ SubSeq(txt, 1, Len(lit)) = lit
  THEN Parsed(val, Drop(txt, Len(lit)))
  ELSE ParseFail

\* the character a two-character escape stands for
Unescape(c) ==
  CASE c = "b" -> CodeUnit(8)
    [] c = "f" -> "\f"
    [] c = "n" -> "\n"
    [] c = "r" -> "\r"
    [] c = "t" -> "\t"
    [] OTHER -> c

\* the characters of a string literal after its opening quote: a control
\* character must be escaped; the escapes are \" \\ \/ \b \f \n \r \t \uXXXX
RECURSIVE ParseString(_, _)
ParseString(txt, acc) ==
  IF txt = <<>> THEN ParseFail
  ELSE IF Head(txt) = "\"" THEN Parsed(Str(acc), Tail(txt))
  ELSE IF Head(txt) = "\\"
       THEN IF Len(txt) >= 2 /\ txt[2] \in {"\"", "\\", "/", "b", "f", "n", "r", "t"}
            THEN ParseString(Drop(txt, 2), Append(acc, Unescape(txt[2])))
            ELSE IF Len(txt) >= 6 /\ txt[2] = "u" /\ \A i \in 3..6 : IsHex(txt[i])
            THEN ParseString(Drop(txt, 6),
                             Append(acc, CodeUnit(4096 * HexValue(txt[3]) + 256 * HexValue(txt[4])
                                                    + 16 * HexValue(txt[5]) + HexValue(txt[6]))))
            ELSE ParseFail
  ELSE IF IsControl(Head(txt)) THEN ParseFail
  ELSE ParseString(Tail(txt), Append(acc, Head(txt)))

\* the first place of lo..hi where txt holds a character outside S, or
\* hi + 1; the last such place, or lo - 1
RECURSIVE FirstOther(_, _, _, _)
RECURSIVE FirstOtherOr(_, _, _, _, _)
FirstOther(txt, S, lo, hi) ==
  IF lo > hi THEN lo
  ELSE IF lo = hi THEN (IF txt[lo] \in S THEN lo + 1 ELSE lo)
  ELSE FirstOtherOr(txt, S, (lo + hi) \div 2, hi, FirstOther(txt, S, lo, (lo + hi) \div 2))

FirstOtherOr(txt, S, mid, hi, at) ==
  IF at <= mid THEN at ELSE FirstOther(txt, S, mid + 1, hi)

RECURSIVE LastOther(_, _, _, _)
RECURSIVE LastOtherOr(_, _, _, _, _)
LastOther(txt, S, lo, hi) ==
  IF lo > hi THEN hi
  ELSE IF lo = hi THEN (IF txt[lo] \in S THEN lo - 1 ELSE lo)
  ELSE LastOtherOr(txt, S, lo, (lo + hi) \div 2, LastOther(txt, S, ((lo + hi) \div 2) + 1, hi))

LastOtherOr(txt, S, lo, mid, at) ==
  IF at > mid THEN at ELSE LastOther(txt, S, lo, mid)

\* the number of digits, and of zeros, a text starts with
LeadingDigits(txt) == FirstOther(txt, Digits, 1, Len(txt)) - 1

LeadingZeros(ds) == FirstOther(ds, {"0"}, 1, Len(ds)) - 1

\* the digits ds without the zeros they end with
StripRight(ds) == SubSeq(ds, 1, LastOther(ds, {"0"}, 1, Len(ds)))

\* Number::toString for the digits ds (no zero at either end) read as
\* 0.ds times ten to the n
NumberToString(ds, n) ==
  LET k == Len(ds)
      e == n - 1
  IN IF k <= n /\ n <= 21 THEN ds \o [i \in 1..(n - k) |-> "0"]
     ELSE IF 0 < n /\ n <= 21 THEN SubSeq(ds, 1, n) \o <<".">> \o Drop(ds, n)
     ELSE IF -6 < n /\ n <= 0 THEN <<"0", ".">> \o [i \in 1..(0 - n) |-> "0"] \o ds
     ELSE (IF k = 1 THEN ds ELSE <<ds[1], ".">> \o Tail(ds))
          \o <<"e", IF e < 0 THEN "-" ELSE "+">>
          \o Split(ToString(IF e < 0 THEN 0 - e ELSE e))

\* ---------------------------------------------------------------------------
\* Whole numbers of any size, for the rounding of a literal to a double: a
\* sequence of limbs in base 10000, the lowest first, no zero limb on top
\* (zero is the empty sequence)
\* ---------------------------------------------------------------------------
Limb == 10000

\* the highest place of lo..hi where a holds something other than zero, or 0
RECURSIVE BigTop(_, _, _)
RECURSIVE BigTopOr(_, _, _, _)
BigTop(a, lo, hi) ==
  IF lo > hi THEN 0
  ELSE IF lo = hi THEN (IF a[lo] # 0 THEN lo ELSE 0)
  ELSE BigTopOr(BigTop(a, (lo + hi) \div 2 + 1, hi), a, lo, (lo + hi) \div 2)

BigTopOr(up, a, lo, mid) == IF up # 0 THEN up ELSE BigTop(a, lo, mid)

BigNorm(a) == SubSeq(a, 1, BigTop(a, 1, Len(a)))

BigFromDigits(ds) ==
  BigNorm([i \in 1..((Len(ds) + 3) \div 4) |->
             DigitsValue(SubSeq(ds, IF Len(ds) - 4 * i < 0 THEN 1 ELSE Len(ds) - 4 * i + 1,
                                Len(ds) - 4 * i + 4), 0)])

\* the four digits of a limb, the highest first
LimbDigit(limb, i) ==
  ToString((limb \div (CASE i % 4 = 1 -> 1000 [] i % 4 = 2 -> 100
                         [] i % 4 = 3 -> 10 [] OTHER -> 1)) % 10)

BigToDigits(a) ==
  IF Len(a) = 0 THEN <<"0">>
  ELSE Drop([i \in 1..(4 * Len(a)) |-> LimbDigit(a[Len(a) - ((i - 1) \div 4)], i)],
            LeadingZeros(<<LimbDigit(a[Len(a)], 1), LimbDigit(a[Len(a)], 2),
                           LimbDigit(a[Len(a)], 3)>>))

BigAt(a, i) == IF i >= 1 /\ i <= Len(a) THEN a[i] ELSE 0

BigCmpAt(a, b, i) == IF i = 0 THEN 0 ELSE IF a[i] < b[i] THEN 0 - 1 ELSE 1

\* -1, 0 or 1 as a is below, equal to or above b
BigCmp(a, b) ==
  IF Len(a) # Len(b) THEN (IF Len(a) < Len(b) THEN 0 - 1 ELSE 1)
  ELSE BigCmpAt(a, b, BigTop([j \in 1..Len(a) |-> a[j] - b[j]], 1, Len(a)))

\* the carry out of a place that holds t, and the limb left in it with that
\* carry
CarryOf(t) == IF t < 0 THEN 0 - 1 ELSE IF t >= Limb THEN 1 ELSE 0
CarryOne(t) == <<<<t - CarryOf(t) * Limb>>, CarryOf(t)>>

\* the limbs and the carry of the lower places l, followed by those of the
\* upper places for the carry that l passes on
CarryBoth(l, up) == <<l[1] \o up[l[2] + 2][1], up[l[2] + 2][2]>>
CarryJoin(low, up) == <<CarryBoth(low[1], up), CarryBoth(low[2], up), CarryBoth(low[3], up)>>

\* the places lo..hi of s brought into 0..Limb-1, the carry passed upwards:
\* for a carry of -1, 0 and 1 coming in, the limbs and the carry going out.
\* Each place of s holds more than -Limb and less than 2 * Limb - 1.
RECURSIVE BigCarryRange(_, _, _)
BigCarryRange(s, lo, hi) ==
  IF lo = hi THEN <<CarryOne(s[lo] - 1), CarryOne(s[lo]), CarryOne(s[lo] + 1)>>
  ELSE CarryJoin(BigCarryRange(s, lo, (lo + hi) \div 2),
                 BigCarryRange(s, (lo + hi) \div 2 + 1, hi))

Carried(r) == BigNorm(r[1] \o <<r[2]>>)

BigCarry(s) == IF Len(s) = 0 THEN <<>> ELSE Carried(BigCarryRange(s, 1, Len(s))[2])

BigAdd(a, b) ==
  BigCarry([i \in 1..(IF Len(a) > Len(b) THEN Len(a) ELSE Len(b)) |-> BigAt(a, i) + BigAt(b, i)])

\* a - b for a >= b
BigSub(a, b) == BigCarry([i \in 1..Len(a) |-> a[i] - BigAt(b, i)])

\* a times s for 0 <= s < Limb
BigMulSmall(a, s) ==
  BigCarry([i \in 1..(Len(a) + 1) |->
              ((BigAt(a, i) * s) % Limb) + ((BigAt(a, i - 1) * s) \div Limb)])

\* a times Limb^j
BigShift(a, j) == IF Len(a) = 0 THEN <<>> ELSE [i \in 1..j |-> 0] \o a

\* a times the limbs lo..hi of b
RECURSIVE BigMulRange(_, _, _, _)
BigMulRange(a, b, lo, hi) ==
  IF lo = hi THEN BigMulSmall(a, b[lo])
  ELSE BigAdd(BigMulRange(a, b, lo, (lo + hi) \div 2),
              BigShift(BigMulRange(a, b, (lo + hi) \div 2 + 1, hi), (lo + hi) \div 2 + 1 - lo))

BigMul(a, b) == IF Len(a) = 0 \/ Len(b) = 0 THEN <<>> ELSE BigMulRange(a, b, 1, Len(b))

BigSquare(h, odd) == IF odd THEN BigMulSmall(BigMul(h, h), 2) ELSE BigMul(h, h)

RECURSIVE BigPow2(_)
BigPow2(j) == IF j < 13 THEN <<2^j>> ELSE BigSquare(BigPow2(j \div 2), j % 2 = 1)

BigTimesPow2(a, j) == IF j = 0 THEN a ELSE BigMul(a, BigPow2(j))

BigTimesPow10(a, e) == BigMulSmall(BigShift(a, e \div 4), 10^(e % 4))

\* the largest t in lo..hi with t * b * Limb^j <= r, lo being one such t
RECURSIVE BigLimbOf(_, _, _, _, _)
RECURSIVE BigLimbAt(_, _, _, _, _, _)
BigLimbOf(r, b, j, lo, hi) ==
  IF lo = hi THEN lo ELSE BigLimbAt(r, b, j, lo, hi, (lo + hi + 1) \div 2)

BigLimbAt(r, b, j, lo, hi, mid) ==
  IF BigCmp(BigShift(BigMulSmall(b, mid), j), r) <= 0
  THEN BigLimbOf(r, b, j, mid, hi)
  ELSE BigLimbOf(r, b, j, lo, mid - 1)

\* the quotient rest[1], below Limb^j, with the limb t put on top of it
BigQuotient(t, rest, j) ==
  <<IF t = 0 THEN rest[1]
    ELSE [i \in 1..j |-> IF i <= Len(rest[1]) THEN rest[1][i] ELSE 0] \o <<t>>,
    rest[2]>>

\* quotient and remainder of r by b, the quotient below Limb^(j + 1)
RECURSIVE BigDivFrom(_, _, _)
RECURSIVE BigDivLimb(_, _, _, _)
BigDivFrom(r, b, j) ==
  IF j < 0 THEN <<<<>>, r>> ELSE BigDivLimb(r, b, j, BigLimbOf(r, b, j, 0, Limb - 1))

BigDivLimb(r, b, j, t) ==
  BigQuotient(t, BigDivFrom(BigSub(r, BigShift(BigMulSmall(b, t), j)), b, j - 1), j)

BigDiv(a, b) == BigDivFrom(a, b, Len(a) - Len(b))

BigOdd(a) == Len(a) > 0 /\ a[1] % 2 = 1

Two52 == BigPow2(52)
Two53 == BigPow2(53)

Pos(i) == IF i > 0 THEN i ELSE 0

\* the significand M and the exponent q as a double holds them: a
\* significand that rounding has carried to 2^53 is 2^52 one exponent up
Normal(M, q) == IF M = Two53 THEN <<Two52, q + 1>> ELSE <<M, q>>

\* round half to even: the quotient Q is followed by less than a half
\* (half < 0), exactly a half (0) or more (> 0)
RoundEnd(Q, half, q) ==
  Normal(IF half > 0 \/ (half = 0 /\ BigOdd(Q)) THEN BigAdd(Q, <<1>>) ELSE Q, q)

\* what follows the quotient cut[1] against a half: cut[2] are the sh bits
\* cut off and r is the remainder of the division by by
Half(cut, r, by, sh) ==
  IF sh = 0 THEN BigCmp(BigMulSmall(r, 2), by)
  ELSE IF BigCmp(BigMulSmall(cut[2], 2), BigPow2(sh)) # 0
    THEN BigCmp(BigMulSmall(cut[2], 2), BigPow2(sh))
  ELSE IF Len(r) > 0 THEN 1 ELSE 0

RoundCut(cut, r, by, q0, sh) == RoundEnd(cut[1], Half(cut, r, by, sh), q0 + sh)

\* the bits a quotient has beyond 53
SpareBits(Q) ==
  CHOOSE i \in 0..12 : BigCmp(Q, BigPow2(53 + i)) < 0
                         /\ (i = 0 \/ BigCmp(Q, BigPow2(52 + i)) >= 0)

RoundSpare(dv, by, q0, sh) == RoundCut(BigDiv(dv[1], BigPow2(sh)), dv[2], by, q0, sh)

RoundFrom(num, by, q0) == RoundSpare(BigDiv(num, by), by, q0, SpareBits(BigDiv(num, by)[1]))

\* an exponent at most that of the doubles between 10^(m-1) and 10^m, and
\* at most some ten below it; -1074 is the exponent of the smallest doubles
LowExponent(m) ==
  IF ((m - 1) * 3321928) \div 1000000 - 54 < 0 - 1074 THEN 0 - 1074
  ELSE ((m - 1) * 3321928) \div 1000000 - 54

\* StringToNumber, the rounding: the double nearest to num/den, ties to the
\* even significand.  m is the number of digits before the decimal point,
\* so 10^(m-1) <= num/den < 10^m.  The result is <<M, q>> for the double
\* M * 2^q, with 2^52 <= M < 2^53 or q = -1074; q > 971 is beyond the
\* largest double.  The quotient is first taken with a few bits to spare
\* and these are then rounded away.
RoundToDouble(num, den, m) ==
  RoundFrom(BigTimesPow2(num, Pos(0 - LowExponent(m))),
            BigTimesPow2(den, Pos(LowExponent(m))), LowExponent(m))

\* c lies between lo and hi, the ends left out when open
Fits(lo, c, hi, open) ==
  IF open THEN BigCmp(lo, c) < 0 /\ BigCmp(c, hi) < 0
  ELSE BigCmp(lo, c) <= 0 /\ BigCmp(c, hi) <= 0

\* of sf and sf + 1, whose values are cf and cc, the one nearer to v, and of
\* two equally near the even one
Nearer(v, sf, cf, cc) ==
  IF BigCmp(BigMulSmall(v, 2), BigAdd(cf, cc)) < 0
       \/ (BigCmp(BigMulSmall(v, 2), BigAdd(cf, cc)) = 0 /\ ~BigOdd(sf))
  THEN sf ELSE BigAdd(sf, <<1>>)

\* Number::toString, the digits: the shortest decimal that rounds to the
\* double; of several, the one nearest to it, and of two equally near the
\* even one.  The decimals that round to the double are those between the
\* halfway points to its neighbours, lo and hi, the halfway points
\* themselves when the significand is even.  v, lo and hi are counted in
\* units of which base makes up one in the last place of digs, the
\* leading digits of v; the decimal sought has k digits or more.  The
\* result is the decimal's digits and the number of places cut off digs.
RECURSIVE ShortestFrom(_, _, _, _, _, _, _)
RECURSIVE ShortestWith(_, _, _, _, _, _, _, _, _)
RECURSIVE ShortestPick(_, _, _, _, _, _, _, _, _, _)
ShortestFrom(v, lo, hi, open, base, digs, k) ==
  ShortestWith(v, lo, hi, open, base, digs, k,
               BigFromDigits(SubSeq(digs, 1, k)), BigTimesPow10(base, Len(digs) - k))

\* sf are the first k digits of digs and unit is the value of one in their
\* last place
ShortestWith(v, lo, hi, open, base, digs, k, sf, unit) ==
  ShortestPick(v, lo, hi, open, base, digs, k, sf,
               BigMul(unit, sf), BigAdd(BigMul(unit, sf), unit))

\* cf is the value of sf and cc that of sf + 1
ShortestPick(v, lo, hi, open, base, digs, k, sf, cf, cc) ==
  IF Fits(lo, cf, hi, open) /\ Fits(lo, cc, hi, open)
    THEN <<BigToDigits(Nearer(v, sf, cf, cc)), Len(digs) - k>>
  ELSE IF Fits(lo, cf, hi, open) THEN <<BigToDigits(sf), Len(digs) - k>>
  ELSE IF Fits(lo, cc, hi, open) THEN <<BigToDigits(BigAdd(sf, <<1>>)), Len(digs) - k>>
  ELSE ShortestFrom(v, lo, hi, open, base, digs, k + 1)

\* N * 2^q and one, counted in units of 10^tmin / (4 * 2^q) or whole
\* multiples of them
Scaled(N, q, tmin) == BigTimesPow10(BigMul(BigPow2(Pos(q)), N), Pos(0 - tmin))

ScaleBase(q, tmin) == BigTimesPow10(BigMulSmall(BigPow2(Pos(0 - q)), 4), Pos(tmin))

\* the decimal st, its places counted from 10^tmin, in canonical form
Printed(st, tmin) == NumberToString(StripRight(st[1]), Len(st[1]) + st[2] + tmin)

ShortestAmong(v, lo, hi, open, base, tmin) ==
  Printed(ShortestFrom(v, lo, hi, open, base, BigToDigits(BigDiv(v, base)[1]), 1), tmin)

\* Number::toString of the double M * 2^q, which lies between 10^(m-2) and
\* 10^(m+1).  The double below is half as far away as the double above
\* when M is 2^52 and the exponent is not the smallest.
DoubleToString(M, q, m) ==
  ShortestAmong(Scaled(BigMulSmall(M, 4), q, m - 19),
                Scaled(BigSub(BigMulSmall(M, 4),
                              IF M = Two52 /\ q > 0 - 1074 THEN <<1>> ELSE <<2>>), q, m - 19),
                Scaled(BigAdd(BigMulSmall(M, 4), <<2>>), q, m - 19),
                BigOdd(M), ScaleBase(q, m - 19), m - 19)

\* the canonical decimal form of the double dbl
Canonical(dbl, m) ==
  IF Len(dbl[1]) = 0 THEN <<"0">>
  ELSE IF dbl[2] > 971 THEN <<"Infinity">>
  ELSE DoubleToString(dbl[1], dbl[2], m)

\* the canonical decimal form of the double nearest to 0.sg times ten to the
\* m, sg being digits without a zero at either end
NearestDouble(sg, m) ==
  Canonical(RoundToDouble(BigTimesPow10(BigFromDigits(sg), Pos(m - Len(sg))),
                          BigTimesPow10(<<1>>, Pos(Len(sg) - m)), m), m)

\* the number a literal stands for, in its canonical decimal form.  ds are
\* the digits of the literal and n the place of its decimal point: the
\* literal is 0.ds times ten to the n.  A literal of at most 15 significant
\* digits between 1e-307 and 1e308 is the shortest decimal of the double it
\* rounds to; any other literal is rounded and printed digit by digit.
ToNumber(neg, ds, n) ==
  LET z  == LeadingZeros(ds)
      sg == StripRight(Drop(ds, z))
      m  == n - z
      sign == IF neg THEN <<"-">> ELSE <<>>
  IN IF sg = <<>> \/ m < 0 - 330 THEN NumD(sign \o <<"0">>)
     ELSE IF m > 310 THEN NumD(sign \o <<"Infinity">>)
     ELSE IF Len(sg) <= 15 /\ m >= 0 - 306 /\ m <= 308 THEN NumD(sign \o NumberToString(sg, m))
     ELSE NumD(sign \o NearestDouble(sg, m))

\* a number literal: an optional "-", then "0" or digits that do not start
\* with "0", then an optional fraction, then an optional exponent.  The
\* exponent counts as written up to far, 400 more than the text has
\* characters: from there on the literal is, whatever its digits, beyond
\* the largest double or below half the smallest, and so is every literal
\* with a greater exponent and the same digits.
ParseNumber(txt) ==
  LET s == IF txt # <<>> /\ Head(txt) = "-" THEN 1 ELSE 0
      n == LeadingDigits(Drop(txt, s))
      f == IF Len(txt) > s + n /\ txt[s + n + 1] = "."
           THEN LeadingDigits(Drop(txt, s + n + 1)) ELSE 0
      p == s + n + (IF f > 0 THEN f + 1 ELSE 0)
      hasE == Len(txt) > p /\ txt[p + 1] \in {"e", "E"}
      es == IF hasE /\ Len(txt) > p + 1 /\ txt[p + 2] \in {"+", "-"} THEN 1 ELSE 0
      en == IF hasE THEN LeadingDigits(Drop(txt, p + 1 + es)) ELSE 0
      len == p + (IF en > 0 THEN 1 + es + en ELSE 0)
      ed == Drop(SubSeq(txt, p + 2 + es, len), LeadingZeros(SubSeq(txt, p + 2 + es, len)))
      far == Len(txt) + 400
      ev == IF Len(ed) > 9 /\ far < 1000000000 THEN far
            ELSE IF DigitsValue(ed, 0) > far THEN far ELSE DigitsValue(ed, 0)
      ex == IF en = 0 THEN 0
            ELSE IF es = 1 /\ txt[p + 2] = "-" THEN 0 - ev ELSE ev
      ds == SubSeq(txt, s + 1, s + n)
              \o (IF f > 0 THEN SubSeq(txt, s + n + 2, s + n + 1 + f) ELSE <<>>)
  IN IF n = 0 \/ (n > 1 /\ txt[s + 1] = "0") THEN ParseFail
     ELSE Parsed(ToNumber(s = 1, ds, n + ex), Drop(txt, len))

\* an array index as a property name: "0", or digits without a leading
\* zero, standing for a number below 2^32 - 1.  Its rank is the pair of the
\* number above and within its last five digits.
IndexRank(name) ==
  LET n == Len(name)
  IN IF n <= 5 THEN <<0, DigitsValue(name, 0)>>
     ELSE <<DigitsValue(SubSeq(name, 1, n - 5), 0), DigitsValue(SubSeq(name, n - 4, n), 0)>>

RankLess(a, b) == a[1] < b[1] \/ (a[1] = b[1] /\ a[2] < b[2])

IsIndex(name) ==
  /\ name # <<>> /\ Len(name) <= 10
  /\ \A i \in 1..Len(name) : name[i] \in Digits
  /\ Len(name) = 1 \/ name[1] # "0"
  /\ RankLess(IndexRank(name), <<42949, 67295>>)

\* CreateDataProperty on the fields so far: a repeated name keeps its place
\* and takes the new value; index names come first, in numeric order; any
\* other name goes to the end
PutField(fs, name, val) ==
  IF \E i \in 1..Len(fs) : fs[i][1] = name
  THEN [i \in 1..Len(fs) |-> IF fs[i][1] = name THEN <<name, val>> ELSE fs[i]]
  ELSE IF IsIndex(name)
       THEN LET before == Cardinality({i \in 1..Len(fs) :
                             IsIndex(fs[i][1])
                               /\ RankLess(IndexRank(fs[i][1]), IndexRank(name))})
            IN SubSeq(fs, 1, before) \o << <<name, val>> >> \o Drop(fs, before)
  ELSE Append(fs, <<name, val>>)

RECURSIVE ParseValue(_)
RECURSIVE ParseElems(_, _)
RECURSIVE ParseFields(_, _)

\* the elements of an array after "[", white space allowed around each
ParseElems(txt, acc) ==
  LET r == ParseValue(txt)
      rest == SkipWs(r.rest)
  IN IF ~r.ok \/ rest = <<>> THEN ParseFail
     ELSE IF Head(rest) = "," THEN ParseElems(Tail(rest), Append(acc, r.val))
     ELSE IF Head(rest) = "]" THEN Parsed(JArr(Append(acc, r.val)), Tail(rest))
     ELSE ParseFail

\* the fields of an object after "{", white space allowed around each token
ParseFields(txt, acc) ==
  LET t0 == SkipWs(txt)
  IN IF t0 = <<>> \/ Head(t0) # "\"" THEN ParseFail
     ELSE LET k == ParseString(Tail(t0), <<>>)
              t1 == SkipWs(k.rest)
          IN IF ~k.ok \/ t1 = <<>> \/ Head(t1) # ":" THEN ParseFail
             ELSE LET r == ParseValue(Tail(t1))
                      t2 == SkipWs(r.rest)
                  IN IF ~r.ok \/ t2 = <<>> THEN ParseFail
                     ELSE IF Head(t2) = ","
                          THEN ParseFields(Tail(t2), PutField(acc, k.val.v, r.val))
                     ELSE IF Head(t2) = "}"
                          THEN Parsed(JObj(PutField(acc, k.val.v, r.val)), Tail(t2))
                     ELSE ParseFail

\* one value, white space allowed before it
ParseValue(txt) ==
  LET t0 == SkipWs(txt)
  IN IF t0 = <<>> THEN ParseFail
     ELSE CASE Head(t0) = "\"" -> ParseString(Tail(t0), <<>>)
            [] Head(t0) = "[" ->
                 IF SkipWs(Tail(t0)) # <<>> /\ Head(SkipWs(Tail(t0))) = "]"
                 THEN Parsed(JArr(<<>>), Tail(SkipWs(Tail(t0))))
                 ELSE ParseElems(Tail(t0), <<>>)
            [] Head(t0) = "{" ->
                 IF SkipWs(Tail(t0)) # <<>> /\ Head(SkipWs(Tail(t0))) = "}"
                 THEN Parsed(JObj(<<>>), Tail(SkipWs(Tail(t0))))
                 ELSE ParseFields(Tail(t0), <<>>)
            [] Head(t0) = "t" -> ParseLit(t0, TextTrue, Bool(TRUE))
            [] Head(t0) = "f" -> ParseLit(t0, TextFalse, Bool(FALSE))
            [] Head(t0) = "n" -> ParseLit(t0, TextNull, Null)
            [] Head(t0) \in Digits \cup {"-"} -> ParseNumber(t0)
            [] OTHER -> ParseFail

\* JSON.parse(text): ok is false where JSON.parse throws
WholeText(r) ==
  IF r.ok /\ SkipWs(r.rest) = <<>> THEN [ok |-> TRUE, val |-> r.val]
  ELSE [ok |-> FALSE, val |-> Undefined]

JsonParse(txt) == WholeText(ParseValue(txt))

(***************************************************************************)
(* CacheService (src/src/lib/cache.ts): keys, store entries, store calls   *)
(***************************************************************************)
DefaultPrefix == <<"a", "u", "t", "h", ":">>
CachePrefixes == {DefaultPrefix, <<"s", ":">>}
CacheKeys     == {<<"a">>, <<"b">>}
CachePatterns == {<<"*">>, <<"a">>}

\* the key the rate limiter of index.ts keeps on the same connection
RateKey == DefaultPrefix \o <<"r", "a", "t", "e", "l", "i", "m", "i", "t", ":", "x">>

\* slip: the prefix is left out
buildKey_bare(prefix, key) == key

\* `${this.prefix}${key}`
buildKey(prefix, key) == prefix \o key

\* the cache key under which the default instance meets the limiter's key
RateSuffix == <<"r", "a", "t", "e", "l", "i", "m", "i", "t", ":", "x">>

\* the Verifier's keys that the store of this section holds
VerifierKeys == {KeyText(generateCacheKey(TokA, Ip1))}

StoreKeys ==
  {buildKey(q, k) : q \in CachePrefixes, k \in CacheKeys} \cup CacheKeys \cup {RateKey}
    \cup VerifierKeys

\* values handed to set and mset, and their TTL arguments
JsonValues ==
  { Str(<<"a">>), Str(<<"7">>), Str(<<"\"", "\\">>), Str(<<"\t", "\\u001f">>), Num("7"),
    NumD(<<"-", "1", ".", "5">>), Bool(TRUE),
    JArr(<<Num("1"), Str(<<"a">>)>>),
    JObj(<< << <<"k">>, JArr(<<Bool(FALSE)>>) >> >>) }
\* the values of the round trip, and undefined, for which JSON.stringify
\* gives no text at all
RoundValues == JsonValues \cup {Undefined}
Ttls == {Undefined, Num("0"), NumD(<<"-", "1">>), NumD(<<"6", "0">>)}

\* values of every kind for the way through set and get.  Strings: empty,
\* looking like JSON, with characters JSON.stringify escapes, with
\* characters above U+007E, a surrogate pair, a lone surrogate.  Numbers, as
\* Number::toString prints them: both zeros, whole, with a fraction, in
\* exponent form, of seventeen digits, 2^53, the smallest double, and the
\* three that are not finite.  Arrays and objects: empty, nested, holding
\* null, undefined, a negative zero, an index and an empty string as names.
TripStrings ==
  { Str(<<>>), Str(<<"a">>), Str(<<"7">>), Str(<<"n", "u", "l", "l">>),
    Str(<<"[", "1", "]">>), Str(<<"\"", "\\", "/">>),
    Str(<<"\t", "\n", "\\u0008", "\\u001f", "\\u007f">>),
    Str(<<"\\u00e9", "\\u2028">>), Str(<<"\\ud83d", "\\ude00">>), Str(<<"\\udc00">>) }
TripNumbers ==
  { Num("0"), NumD(<<"-", "0">>), Num("7"), NumD(<<"-", "1", ".", "5">>),
    NumD(<<"0", ".", "1">>), NumD(<<"1", "e", "+", "2", "1">>),
    NumD(<<"1", "e", "-", "7">>), NumD(<<"0", ".", "0", "0", "0", "0", "0", "1">>),
    NumD(<<"1", "2", "3", "4", "5", "6", "7", "8", "9", "0", "1", "2", "3", "4", "5", "6",
           "8", "0", "0", "0", "0">>),
    NumD(<<"0", ".", "3", "0", "0", "0", "0", "0", "0", "0", "0", "0", "0", "0", "0", "0",
           "0", "0", "4">>),
    NumD(<<"9", "0", "0", "7", "1", "9", "9", "2", "5", "4", "7", "4", "0", "9", "9", "2">>),
    NumD(<<"5", "e", "-", "3", "2", "4">>),
    NumD(<<"-", "1", ".", "5", "e", "+", "3", "0", "0">>),
    NumD(<<"NaN">>), NumD(<<"Infinity">>), NumD(<<"-", "Infinity">>) }
TripArrays ==
  { JArr(<<>>), JArr(<<Num("1"), Str(<<"a">>)>>),
    JArr(<<JArr(<<>>), Null, Bool(TRUE), JObj(<<>>)>>),
    JArr(<<NumD(<<"-", "0">>),
           NumD(<<"0", ".", "3", "0", "0", "0", "0", "0", "0", "0", "0", "0", "0", "0", "0",
                  "0", "0", "0", "4">>)>>),
    JArr(<<Undefined>>) }
TripObjects ==
  { JObj(<<>>), JObj(<< << <<"k">>, JArr(<<Bool(FALSE)>>) >> >>),
    JObj(<< << <<"1">>, Str(<<"x">>) >>,
            << <<"a">>, JObj(<< << <<"1", "0">>, Num("7") >>, << <<"b">>, Null >> >>) >> >>),
    JObj(<< << <<>>, Num("0") >>, << <<"\"">>, NumD(<<"-", "0">>) >> >>),
    JObj(<< << <<"a">>, Undefined >> >>) }
TripValues ==
  TripStrings \cup TripNumbers \cup TripArrays \cup TripObjects
    \cup {Bool(TRUE), Bool(FALSE), Null, Undefined}

\* strings another client of the store may have written
RawTexts == {<<"h", "i">>}

\* the integer a number value stands for
NumberValue(x) ==
  IF Head(x.v) = "-" THEN 0 - DigitsValue(Tail(x.v), 0) ELSE DigitsValue(x.v, 0)

\* an entry of the store: the string held, its expiry in seconds (0: none)
\* and the value set() was given (undefined when another client wrote it)
Absent == [has |-> FALSE, text |-> <<>>, ex |-> 0, src |-> Undefined]
Held(text, ex, src) == [has |-> TRUE, text |-> text, ex |-> ex, src |-> src]

\* the string the store client sends for an argument: undefined and null
\* go out as the empty string
toArg(x) == IF x \in {Undefined, Null} THEN <<>> ELSE x.v

\* redis.get(fullKey): the stored string, or null
redisRead(s, fullKey) == IF s[fullKey].has THEN Str(s[fullKey].text) ELSE Null

\* the glob match of SCAN ... MATCH pattern
RECURSIVE Match(_, _)
Match(pat, key) ==
  IF pat = <<>> THEN key = <<>>
  ELSE IF Head(pat) = "*"
       THEN Match(Tail(pat), key) \/ (key # <<>> /\ Match(pat, Tail(key)))
  ELSE /\ key # <<>>
       /\ Head(pat) = "?" \/ Head(pat) = Head(key)
       /\ Match(Tail(pat), Tail(key))

Matching(s, pat) == {fk \in StoreKeys : s[fk].has /\ Match(pat, fk)}

SeqOf(S) == CHOOSE q \in [1..Cardinality(S) -> S] : {q[i] : i \in 1..Cardinality(S)} = S

\* line 265: the COUNT hint of every SCAN
ScanCount == 100

\* one call on the store client, as the service issues it: text is the
\* value argument of a SET (a string, or undefined) and undefined for the
\* other commands; reply is "none" while the call is pending, then "ok" or
\* "error"; a SCAN also carries what the store answered (out, next)
StoreCall(cmd, keys, text, ex, cursor) ==
  [cmd |-> cmd, keys |-> keys, text |-> text, ex |-> ex, cursor |-> cursor,
   reply |-> "none",
   count |-> IF cmd = "SCAN" THEN ScanCount ELSE 0, out |-> {}, next |-> <<>>]

\* the store answers a call; the pending call of an operation is its last
Reply(sc, ok) == [sc EXCEPT !.reply = IF ok THEN "ok" ELSE "error"]
Answer(calls, ok) == [calls EXCEPT ![Len(calls)] = Reply(@, ok)]
Ok(sc) == sc.reply = "ok"
Failed(sc) == sc.reply = "error"

\* try { JSON.parse } catch: the parsed value, or other where it throws
ParsedOr(p, other) == IF p.ok THEN p.val ELSE other

\* slip: a value that does not parse is handed back as null
Decode_nullOnFailure(value) ==
  IF value = Null THEN Null ELSE ParsedOr(JsonParse(value.v), Null)

\* lines 151-163 and 324-336: what a read hands back for a store value: the
\* parsed value, or the string itself where JSON.parse throws
Decode(value) ==
  IF value = Null THEN Null ELSE ParsedOr(JsonParse(value.v), value)

\* slip: every defined TTL is passed on as an expiry
Expiry_anyDefined(ttl) == IF ttl # Undefined THEN NumberValue(ttl) ELSE 0

\* lines 198-204 and 401-405: the expiry a SET carries, 0 for a plain SET
Expiry(ttl) == IF ttl # Undefined /\ NumberValue(ttl) > 0 THEN NumberValue(ttl) ELSE 0

\* lines 432-438: a quotient of two counters as the pair (n, d); 0/0 is NaN
Divide(n, d) == [n |-> n, d |-> d]
Zero == [n |-> 0, d |-> 1]
NaN == [n |-> 0, d |-> 0]

\* an object handed to the caller: its two fields, and whether it is the
\* object the instance keeps (alias) or one of its own
NoSnap == [has |-> FALSE, alias |-> FALSE, hits |-> 0, misses |-> 0]

\* the code that calls the instance: a caller waits for the operation it
\* started, the others go on.  The scenarios below vary every argument of
\* the operations of the callers in Lead; a caller in Side cuts in with
\* fewer of them.
Callers == {1, 2}
Lead == {1}
Side == Callers \ Lead

\* the record of the running or last operation of a caller: its arguments
\* (key, keys, ttls, vals), its outcome (err, thrown, ret, count, rate,
\* snap), the store calls of it that the store has answered, the position
\* of deleteByPattern in its loop, the keys that matched when
\* deleteByPattern started, and the keys its iteration of the store still
\* owes (due)
NoOp ==
  [name |-> "none", st |-> "none", key |-> <<>>, keys |-> <<>>, err |-> FALSE,
   ret |-> Undefined, count |-> 0, calls |-> <<>>, phase |-> "none",
   cursor |-> <<"0">>, batch |-> {}, scans |-> 0,
   ttls |-> <<>>, vals |-> <<>>, thrown |-> "none", matched |-> {}, due |-> {}, rate |-> Zero, snap |-> NoSnap]

StartOp(name, key, keys) ==
  [NoOp EXCEPT !.name = name, !.st = "done", !.key = key, !.keys = keys]

\* the store removes keys: an iteration under way no longer owes them.  A
\* full iteration returns every key that is in the store from its first
\* SCAN to its last; a key that is not there all the time may be returned
\* or not.
Forget(ops, keys) == [c \in DOMAIN ops |-> [ops[c] EXCEPT !.due = @ \ keys]]

\* the instance a constructor call leaves
NewCache(prefix) == [prefix |-> prefix, hits |-> 0, misses |-> 0]

MaxCount == 2
MaxScans == 2

(***************************************************************************)
(* The cleanup handlers of lib/redis.ts                                    *)
(***************************************************************************)
Signals == {"SIGINT", "SIGTERM"}

\* a listener function: a closure the module created (told apart by the
\* number of its creation), a listener of other code, or null
NoHandler == [by |-> "none", id |-> 0]
Handler(n) == [by |-> "module", id |-> n]
OtherListener == [by |-> "other", id |-> 0]

\* lines 119-123 at module load, with the listener lists of the process;
\* last, early and ret describe the latest call and made counts the closures
NoSig ==
  [registered |-> FALSE, sigintHandler |-> NoHandler, sigtermHandler |-> NoHandler,
   listeners |-> [s \in Signals |-> <<>>],
   made |-> 0, last |-> "none", early |-> FALSE, ret |-> FALSE]

\* process.removeListener(signal, h): the latest instance of h is removed
RemoveListener(list, h) ==
  LET at == {i \in 1..Len(list) : list[i] = h}
      last == CHOOSE i \in at : \A j \in at : j <= i
  IN IF at = {} THEN list
     ELSE [i \in 1..(Len(list) - 1) |-> IF i < last THEN list[i] ELSE list[i + 1]]

MaxHandlers == 4
MaxOthers == 1

(***************************************************************************)
(* Initial state                                                           *)
(***************************************************************************)
Init ==
  /\ env \in Envs
  /\ store = [k \in Keys |-> NoEntry]
  /\ pc = [p \in Workers |-> "idle"]
  /\ call = [p \in Workers |-> NoCall]
  /\ gate = [p \in Workers |-> NoGate]
  /\ log = <<>>
  /\ cache = NewCache(DefaultPrefix)
  /\ redis = [fk \in StoreKeys |-> Absent]
  /\ cop = [c \in Callers |-> NoOp]
  /\ sig = NoSig

(***************************************************************************)
(* Actions                                                                 *)
(***************************************************************************)
\* a request enters validateTurnstileToken and runs to its first await
GateRequest(p, r) ==
  /\ pc[p] = "idle"
  /\ LET d == GateDecision(env, r)
         g == [NoGate EXCEPT !.st = "run", !.req = r,
                             !.bodyRead = isAuthEndpoint(r.path)]
     IN CASE d = "next" ->
               /\ gate' = [gate EXCEPT ![p] = [g EXCEPT !.st = "done", !.nextCalls = 1]]
               /\ call' = [call EXCEPT ![p] = NoCall]
               /\ pc' = pc
          [] d = "throw" ->
               /\ gate' = [gate EXCEPT ![p] = [g EXCEPT !.st = "done", !.threw = TRUE]]
               /\ call' = [call EXCEPT ![p] = NoCall]
               /\ pc' = pc
          [] d = "400" ->
               /\ gate' = [gate EXCEPT ![p] =
                             [g EXCEPT !.st = "done", !.status = 400, !.json = Json400]]
               /\ call' = [call EXCEPT ![p] = NoCall]
               /\ pc' = pc
          [] d = "verify" ->
               /\ gate' = [gate EXCEPT ![p] =
                             [g EXCEPT !.verifier =
                                Append(@, <<r.token, GateClientIp(r)>>)]]
               /\ call' = [call EXCEPT ![p] =
                             StartCall(env, store, r.token, GateClientIp(r), "gate")]
               /\ pc' = [pc EXCEPT ![p] = StartPc(env, r.token)]
  /\ UNCHANGED <<env, store, log>>
  /\ UNCHANGED <<cvars, sig>>

\* verifyTurnstileToken(token, remoteip) called on its own
VerifyCall(p, token, remoteip) ==
  /\ pc[p] = "idle"
  /\ call' = [call EXCEPT ![p] = StartCall(env, store, token, remoteip, "direct")]
  /\ gate' = [gate EXCEPT ![p] = NoGate]
  /\ pc' = [pc EXCEPT ![p] = StartPc(env, token)]
  /\ UNCHANGED <<env, store, log>>
  /\ UNCHANGED <<cvars, sig>>

\* slip: a failing read ends the call with false
CacheGet_failClosed(p, ok) ==
  /\ pc[p] = "v_get"
  /\ LET c == call[p]
         cachedResult == redisGet(store, c.key)
     IN IF ok
        THEN /\ call' = [call EXCEPT ![p] =
                           [c EXCEPT !.ops = Append(@, Op("get", c.key, TRUE, cachedResult, 0)),
                                     !.cached = cachedResult]]
             /\ pc' = [pc EXCEPT ![p] = IF cachedResult # Null THEN "v_del" ELSE "v_fetch"]
        ELSE /\ call' = [call EXCEPT ![p] =
                           [c EXCEPT !.ops = Append(@, Op("get", c.key, FALSE, Null, 0)),
                                     !.result = FALSE]]
             /\ pc' = [pc EXCEPT ![p] = "v_ret"]
  /\ UNCHANGED <<env, store, gate, log>>
  /\ UNCHANGED <<cvars, sig>>

\* lines 75-86: await redis.get(cacheKey)
CacheGet(p, ok) ==
  /\ pc[p] = "v_get"
  /\ LET c == call[p]
         cachedResult == redisGet(store, c.key)
     IN IF ok
        THEN /\ call' = [call EXCEPT ![p] =
                           [c EXCEPT !.ops = Append(@, Op("get", c.key, TRUE, cachedResult, 0)),
                                     !.cached = cachedResult]]
             /\ pc' = [pc EXCEPT ![p] = IF cachedResult # Null THEN "v_del" ELSE "v_fetch"]
        ELSE /\ call' = [call EXCEPT ![p] =
                           [c EXCEPT !.ops = Append(@, Op("get", c.key, FALSE, Null, 0))]]
             /\ pc' = [pc EXCEPT ![p] = "v_fetch"]
  /\ UNCHANGED <<env, store, gate, log>>
  /\ UNCHANGED <<cvars, sig>>

\* slip: the entry is not deleted on a hit
CacheDel_keeps(p, ok) ==
  /\ pc[p] = "v_del"
  /\ LET c == call[p]
     IN /\ store' = store
        /\ call' = [call EXCEPT ![p] =
                      [c EXCEPT !.ops = Append(@, Op("del", c.key, ok, Null, 0)),
                                !.result = IF ok THEN c.cached = STrue ELSE @]]
        /\ pc' = [pc EXCEPT ![p] = IF ok THEN "v_ret" ELSE "v_fetch"]
  /\ UNCHANGED <<env, gate, log>>
  /\ UNCHANGED <<cvars, sig>>

\* slip: the cached verdict counts only when the delete removed the entry
CacheDel_counted(p, ok) ==
  /\ pc[p] = "v_del"
  /\ LET c == call[p]
     IN IF ok
        THEN /\ store' = [store EXCEPT ![c.key] = NoEntry]
             /\ call' = [call EXCEPT ![p] =
                           [c EXCEPT !.ops = Append(@, Op("del", c.key, TRUE, Null, 0)),
                                     !.result = (c.cached = STrue /\ store[c.key] # NoEntry)]]
             /\ pc' = [pc EXCEPT ![p] = "v_ret"]
        ELSE /\ store' = store
             /\ call' = [call EXCEPT ![p] =
                           [c EXCEPT !.ops = Append(@, Op("del", c.key, FALSE, Null, 0))]]
             /\ pc' = [pc EXCEPT ![p] = "v_fetch"]
  /\ UNCHANGED <<env, gate, log>>
  /\ UNCHANGED <<cvars, sig>>

\* slip: the cached verdict is returned although the delete failed
CacheDel_grants(p, ok) ==
  /\ pc[p] = "v_del"
  /\ LET c == call[p]
     IN /\ store' = IF ok THEN [store EXCEPT ![c.key] = NoEntry] ELSE store
        /\ call' = [call EXCEPT ![p] =
                      [c EXCEPT !.ops = Append(@, Op("del", c.key, ok, Null, 0)),
                                !.result = (c.cached = STrue)]]
        /\ pc' = [pc EXCEPT ![p] = "v_ret"]
  /\ UNCHANGED <<env, gate, log>>
  /\ UNCHANGED <<cvars, sig>>

\* lines 79-81: await redis.del(cacheKey), then return the cached verdict
CacheDel(p, ok) ==
  /\ pc[p] = "v_del"
  /\ LET c == call[p]
     IN IF ok
        THEN /\ store' = [store EXCEPT ![c.key] = NoEntry]
             /\ call' = [call EXCEPT ![p] =
                           [c EXCEPT !.ops = Append(@, Op("del", c.key, TRUE, Null, 0)),
                                     !.result = (c.cached = STrue)]]
             /\ pc' = [pc EXCEPT ![p] = "v_ret"]
        ELSE /\ store' = store
             /\ call' = [call EXCEPT ![p] =
                           [c EXCEPT !.ops = Append(@, Op("del", c.key, FALSE, Null, 0))]]
             /\ pc' = [pc EXCEPT ![p] = "v_fetch"]
  /\ UNCHANGED <<env, gate, log>>
  /\ UNCHANGED <<cvars, sig>>

\* the answer recorded for a call: the kinds of Responses are distinct
ResponseOf(kind) == CHOOSE resp \in Responses : resp.kind = kind

\* slip: a fetch that rejects counts as an accepted token
Fetch_failOpen(p, resp) ==
  /\ pc[p] = "v_fetch"
  /\ LET c == call[p]
     IN /\ call' = [call EXCEPT ![p] =
                      [c EXCEPT !.ops = Append(@, Op("fetch", NoKey, RemoteAccepts(resp), c.token, 0)),
                                !.remote = resp.kind,
                                !.form = FormData(env, c.token, c.ip),
                                !.result = ~resp.net]]
        /\ pc' = [pc EXCEPT ![p] = IF resp.net /\ resp.ok THEN "v_json" ELSE "v_ret"]
  /\ UNCHANGED <<env, store, gate, log>>
  /\ UNCHANGED <<cvars, sig>>

\* lines 88-113 and 136-139: await fetch(...) settles; a rejected fetch and
\* a response that is not ok end the call with false
Fetch(p, resp) ==
  /\ pc[p] = "v_fetch"
  /\ LET c == call[p]
     IN /\ call' = [call EXCEPT ![p] =
                      [c EXCEPT !.ops = Append(@, Op("fetch", NoKey, RemoteAccepts(resp), c.token, 0)),
                                !.remote = resp.kind,
                                !.form = FormData(env, c.token, c.ip),
                                !.result = FALSE]]
        /\ pc' = [pc EXCEPT ![p] = IF resp.net /\ resp.ok THEN "v_json" ELSE "v_ret"]
  /\ UNCHANGED <<env, store, gate, log>>
  /\ UNCHANGED <<cvars, sig>>

\* lines 115-124 and 136-139: await response.json() settles; the call goes
\* on to the store write only when the body parsed and result.success is truthy
ResponseJson(p) ==
  /\ pc[p] = "v_json"
  /\ pc' = [pc EXCEPT ![p] = IF RemoteAccepts(ResponseOf(call[p].remote))
                             THEN "v_set" ELSE "v_ret"]
  /\ UNCHANGED <<env, store, call, gate, log>>
  /\ UNCHANGED <<cvars, sig>>

\* slip: the successful verification is not written to the store
CacheSet_lost(p, ok) ==
  /\ pc[p] = "v_set"
  /\ LET c == call[p]
     IN /\ store' = store
        /\ call' = [call EXCEPT ![p] =
                      [c EXCEPT !.ops = Append(@, Op("setex", c.key, ok, STrue, TURNSTILE_CACHE_TTL)),
                                !.result = TRUE]]
        /\ pc' = [pc EXCEPT ![p] = "v_ret"]
  /\ UNCHANGED <<env, gate, log>>
  /\ UNCHANGED <<cvars, sig>>

\* slip: a failing write is not caught where it happens, so the outer
\* handler answers false
CacheSet_uncaught(p, ok) ==
  /\ pc[p] = "v_set"
  /\ LET c == call[p]
     IN /\ store' = IF ok THEN [store EXCEPT ![c.key] = Entry(STrue, TURNSTILE_CACHE_TTL)]
                    ELSE store
        /\ call' = [call EXCEPT ![p] =
                      [c EXCEPT !.ops = Append(@, Op("setex", c.key, ok, STrue, TURNSTILE_CACHE_TTL)),
                                !.result = ok]]
        /\ pc' = [pc EXCEPT ![p] = "v_ret"]
  /\ UNCHANGED <<env, gate, log>>
  /\ UNCHANGED <<cvars, sig>>

\* lines 126-135: await redis.setex(cacheKey, TURNSTILE_CACHE_TTL, "true")
CacheSet(p, ok) ==
  /\ pc[p] = "v_set"
  /\ LET c == call[p]
     IN /\ store' = IF ok THEN [store EXCEPT ![c.key] = Entry(STrue, TURNSTILE_CACHE_TTL)]
                    ELSE store
        /\ call' = [call EXCEPT ![p] =
                      [c EXCEPT !.ops = Append(@, Op("setex", c.key, ok, STrue, TURNSTILE_CACHE_TTL)),
                                !.result = TRUE]]
        /\ pc' = [pc EXCEPT ![p] = "v_ret"]
  /\ UNCHANGED <<env, gate, log>>
  /\ UNCHANGED <<cvars, sig>>

\* the promise of verifyTurnstileToken resolves; a waiting Gate continues
Return(p, rec) ==
  /\ pc[p] = "v_ret"
  /\ call' = [call EXCEPT ![p].st = "done"]
  /\ gate' = IF call[p].caller = "gate"
             THEN [gate EXCEPT ![p] = GateFinish(gate[p], call[p].result)]
             ELSE gate
  /\ pc' = [pc EXCEPT ![p] = "idle"]
  /\ log' = IF rec THEN Record(log, call[p]) ELSE log
  /\ UNCHANGED <<env, store>>
  /\ UNCHANGED <<cvars, sig>>

\* the store drops an entry whose TTL has run out
Expire(k) ==
  /\ store[k] # NoEntry
  /\ store[k].ttl > 0
  /\ store' = [store EXCEPT ![k] = NoEntry]
  /\ log' = <<>>
  /\ call' = [p \in Workers |->
                IF pc[p] # "idle" THEN [call[p] EXCEPT !.stale = TRUE] ELSE call[p]]
  /\ UNCHANGED <<env, pc, gate>>
  /\ UNCHANGED <<cvars, sig>>

Step(p) ==
  \/ \E ok \in BOOLEAN : CacheGet(p, ok)
  \/ \E ok \in BOOLEAN : CacheDel(p, ok)
  \/ \E resp \in Responses : Fetch(p, resp)
  \/ ResponseJson(p)
  \/ \E ok \in BOOLEAN : CacheSet(p, ok)

Next ==
  \/ \E p \in Procs, tk \in DirectTokens, ip \in DirectIps : VerifyCall(p, tk, ip)
  \/ \E p \in Procs : Step(p)
  \/ \E p \in Procs : Return(p, FALSE)
  \/ \E k \in Keys : Expire(k)

Spec == Init /\ [][Next]_vars

\* requests passing through the Gate, which calls the Verifier
NextGate ==
  \/ \E p \in Procs, r \in Requests : GateRequest(p, r)
  \/ \E p \in Procs : Step(p)
  \/ \E p \in Procs : Return(p, FALSE)
  \/ \E k \in Keys : Expire(k)

SpecGate == Init /\ [][NextGate]_vars

\* index.ts: the paths the application lets through ahead of the Gate
\* slip: a gated path is on the list
excludedPaths_gated == {"/health", "/token", "/get-session", "/sign-in/email"}

excludedPaths == {"/health", "/token", "/get-session", "/jwks"}

\* app.use((req, res, next) => excludedPaths.includes(req.path)
\*                               ? next() : validateTurnstileToken(req, res, next))
excludedPathsMiddleware(p, r) ==
  IF r.path \in excludedPaths
  THEN /\ pc[p] = "idle"
       /\ gate' = [gate EXCEPT ![p] =
                     [NoGate EXCEPT !.st = "done", !.req = r, !.nextCalls = 1]]
       /\ call' = [call EXCEPT ![p] = NoCall]
       /\ UNCHANGED <<env, store, log, pc>>
       /\ UNCHANGED <<cvars, sig>>
  ELSE GateRequest(p, r)

AppPaths == Paths \cup excludedPaths \cup {"/sign-out"}
AppRequests ==
  [path : AppPaths, hasBody : {TRUE}, token : {Undefined, SEmpty, TokA},
   ip : {Undefined, Ip1}, remoteAddress : {Ip2}]
  \cup
  [path : AppPaths, hasBody : {FALSE}, token : {Undefined},
   ip : {Undefined}, remoteAddress : {Ip2}]

NextApp ==
  \/ \E p \in Procs, r \in AppRequests : excludedPathsMiddleware(p, r)
  \/ \E p \in Procs : Step(p)
  \/ \E p \in Procs : Return(p, FALSE)
  \/ \E k \in Keys : Expire(k)

SpecApp == Init /\ [][NextApp]_vars

\* sequential calls of the Verifier alone, with their history recorded
NextSeq ==
  \/ \E tk \in SeqTokens, ip \in SeqIps : VerifyCall(1, tk, ip)
  \/ Step(1)
  \/ Return(1, TRUE)
  \/ \E k \in Keys : Expire(k)

SpecSeq == Init /\ [][NextSeq]_vars

\* calls with two tokens that agree on their first 32 characters, against
\* a remote API that accepts the first of them and no other token
Genuine == TokA
Forged == TokB
TieIps == {Ip1, Ip2}

NextTie ==
  \/ \E tk \in {Genuine, Forged}, ip \in TieIps : VerifyCall(1, tk, ip)
  \/ \E ok \in BOOLEAN : CacheGet(1, ok)
  \/ \E ok \in BOOLEAN : CacheDel(1, ok)
  \/ \E resp \in Responses :
       /\ RemoteAccepts(resp) => call[1].token = Genuine
       /\ Fetch(1, resp)
  \/ ResponseJson(1)
  \/ \E ok \in BOOLEAN : CacheSet(1, ok)
  \/ Return(1, FALSE)
  \/ \E k \in Keys : Expire(k)

SpecTie == Init /\ [][NextTie]_vars

\* calls with the development bypass literal
NextDev ==
  \/ \E ip \in DevIps : VerifyCall(1, DevBypass, ip)
  \/ Step(1)
  \/ Return(1, FALSE)
  \/ \E k \in Keys : Expire(k)

SpecDev == Init /\ [][NextDev]_vars

\* two requests whose Verifier calls for one token and IP interleave at
\* their awaits, within the lifetime of an entry
Running == Cardinality({q \in Workers : pc[q] # "idle"})

NextConc ==
  \/ \E p \in Workers :
       Len(log) + Running < MaxConcCalls /\ VerifyCall(p, TokA, Ip1)
  \/ \E p \in Workers : Step(p)
  \/ \E p \in Workers : Return(p, TRUE)

\* a production deployment: no bypass token is configured
InitConc ==
  Init /\ env.NODE_ENV = SProduction /\ env.TURNSTILE_BYPASS_TOKEN = Undefined

SpecConc == InitConc /\ [][NextConc]_vars

\* every await of a running call settles: the store client and fetch either
\* resolve or reject
SpecLive ==
  Init /\ [][Next]_vars /\ \A p \in Procs : WF_vars(Step(p) \/ Return(p, FALSE))

(***************************************************************************)
(* CacheService operations.  Every await of a store call is a step         *)
(* boundary: the operation of caller c runs to the await in one step and   *)
(* is resumed by the answer of the store in another; between the two the   *)
(* other callers of the instance and the other clients of the store take   *)
(* their steps.  A step that reaches an await has issued its store call,   *)
(* which stays pending until the step that resumes the operation.  The     *)
(* store carries a command out when it answers it, and answers the pending *)
(* commands in any order.  ok tells whether the store call resolves or     *)
(* rejects.                                                                *)
(***************************************************************************)
\* caller c is suspended at the await of the named operation
Awaits(c, name) == cop[c].st = "run" /\ cop[c].name = name

\* the reads in flight: each may add one to a counter for every key it names
Load(o) ==
  IF o.st # "run" THEN 0
  ELSE IF o.name = "get" THEN 1
  ELSE IF o.name = "mget" THEN Len(o.keys)
  ELSE 0

RECURSIVE Outstanding(_)
Outstanding(cs) ==
  IF cs = {} THEN 0
  ELSE LET c == CHOOSE x \in cs : TRUE IN Load(cop[c]) + Outstanding(cs \ {c})

\* lines 139-144: up to await redis.get(fullKey)
get(c, k) ==
  /\ cop[c].st # "run"
  /\ cache.hits + cache.misses + Outstanding(Callers) < MaxCount
  /\ cop' = [cop EXCEPT ![c] =
               [StartOp("get", k, <<>>) EXCEPT
                  !.st = "run",
                  !.calls = <<StoreCall("GET", <<buildKey(cache.prefix, k)>>,
                                        Undefined, 0, <<>>)>>]]
  /\ UNCHANGED <<cache, redis, vvars, sig>>

\* slip: the hit is counted before the value is looked at
getResumes_countsFirst(c, ok) ==
  /\ Awaits(c, "get")
  /\ LET fullKey == buildKey(cache.prefix, cop[c].key)
         value == redisRead(redis, fullKey)
         o == [cop[c] EXCEPT !.st = "done", !.calls = Answer(@, ok)]
     IN IF ~ok
        THEN cache' = cache /\ cop' = [cop EXCEPT ![c] = [o EXCEPT !.err = TRUE, !.thrown = "store"]]
        ELSE IF value = Null
        THEN /\ cache' = [cache EXCEPT !.hits = @ + 1, !.misses = @ + 1]
             /\ cop' = [cop EXCEPT ![c] = [o EXCEPT !.ret = Null]]
        ELSE /\ cache' = [cache EXCEPT !.hits = @ + 1]
             /\ cop' = [cop EXCEPT ![c] = [o EXCEPT !.ret = Decode(value)]]
  /\ UNCHANGED <<redis, vvars, sig>>

\* slip: a read the store failed is counted as a miss
getResumes_countsFailure(c, ok) ==
  /\ Awaits(c, "get")
  /\ LET fullKey == buildKey(cache.prefix, cop[c].key)
         value == redisRead(redis, fullKey)
         o == [cop[c] EXCEPT !.st = "done", !.calls = Answer(@, ok)]
     IN IF ~ok
        THEN /\ cache' = [cache EXCEPT !.misses = @ + 1]
             /\ cop' = [cop EXCEPT ![c] = [o EXCEPT !.err = TRUE, !.thrown = "store"]]
        ELSE IF value = Null
        THEN /\ cache' = [cache EXCEPT !.misses = @ + 1]
             /\ cop' = [cop EXCEPT ![c] = [o EXCEPT !.ret = Null]]
        ELSE /\ cache' = [cache EXCEPT !.hits = @ + 1]
             /\ cop' = [cop EXCEPT ![c] = [o EXCEPT !.ret = Decode(value)]]
  /\ UNCHANGED <<redis, vvars, sig>>

\* lines 144-177: redis.get(fullKey) settles and get runs to its end
getResumes(c, ok) ==
  /\ Awaits(c, "get")
  /\ LET fullKey == buildKey(cache.prefix, cop[c].key)
         value == redisRead(redis, fullKey)
         o == [cop[c] EXCEPT !.st = "done", !.calls = Answer(@, ok)]
     IN IF ~ok
        THEN cache' = cache /\ cop' = [cop EXCEPT ![c] = [o EXCEPT !.err = TRUE, !.thrown = "store"]]
        ELSE IF value = Null
        THEN /\ cache' = [cache EXCEPT !.misses = @ + 1]
             /\ cop' = [cop EXCEPT ![c] = [o EXCEPT !.ret = Null]]
        ELSE /\ cache' = [cache EXCEPT !.hits = @ + 1]
             /\ cop' = [cop EXCEPT ![c] = [o EXCEPT !.ret = Decode(value)]]
  /\ UNCHANGED <<redis, vvars, sig>>

\* lines 144-177 when the span and counter calls throw: the first of them
\* is inside the try, after the store call and the counter update, so its
\* exception reaches the catch block, whose own first span call throws
\* again; the operation rejects with the exception of the instrumentation
getResumesThrowing(c, ok) ==
  /\ Awaits(c, "get")
  /\ LET fullKey == buildKey(cache.prefix, cop[c].key)
         value == redisRead(redis, fullKey)
     IN /\ cop' = [cop EXCEPT ![c] =
                     [@ EXCEPT !.st = "done", !.err = TRUE, !.thrown = "instr",
                               !.calls = Answer(@, ok)]]
        /\ cache' = IF ~ok THEN cache
                    ELSE IF value = Null THEN [cache EXCEPT !.misses = @ + 1]
                    ELSE [cache EXCEPT !.hits = @ + 1]
  /\ UNCHANGED <<redis, vvars, sig>>

\* lines 187-197: JSON.stringify(value), then up to await redis.set(...)
set(c, k, v, ttl) ==
  /\ cop[c].st # "run"
  /\ LET fullKey == buildKey(cache.prefix, k)
         serialized == JsonStringify(v)
     IN cop' = [cop EXCEPT ![c] =
                  [StartOp("set", k, <<>>) EXCEPT
                     !.st = "run", !.ttls = <<ttl>>, !.vals = <<v>>,
                     !.calls = <<StoreCall("SET", <<fullKey>>, serialized,
                                           Expiry(ttl), <<>>)>>]]
  /\ UNCHANGED <<cache, redis, vvars, sig>>

\* lines 194-214: redis.set(fullKey, serialized[, "EX", ttlSeconds]) settles
setResumes(c, ok) ==
  /\ Awaits(c, "set")
  /\ LET sent == cop[c].calls[1]
     IN /\ cop' = [cop EXCEPT ![c] =
                     [@ EXCEPT !.st = "done",
                               !.err = ~ok, !.thrown = IF ok THEN "none" ELSE "store",
                               !.calls = Answer(@, ok)]]
        /\ redis' = IF ok
                    THEN [redis EXCEPT ![sent.keys[1]] =
                            Held(toArg(sent.text), sent.ex, cop[c].vals[1])]
                    ELSE redis
  /\ UNCHANGED <<cache, vvars, sig>>

\* lines 194-214 when the span and counter calls throw: the store has
\* carried out the SET before the first of them is made
setResumesThrowing(c, ok) ==
  /\ Awaits(c, "set")
  /\ LET sent == cop[c].calls[1]
     IN /\ cop' = [cop EXCEPT ![c] =
                     [@ EXCEPT !.st = "done", !.err = TRUE, !.thrown = "instr",
                               !.calls = Answer(@, ok)]]
        /\ redis' = IF ok
                    THEN [redis EXCEPT ![sent.keys[1]] =
                            Held(toArg(sent.text), sent.ex, cop[c].vals[1])]
                    ELSE redis
  /\ UNCHANGED <<cache, vvars, sig>>

\* lines 222-227: up to await redis.del(fullKey)
delete(c, k) ==
  /\ cop[c].st # "run"
  /\ cop' = [cop EXCEPT ![c] =
               [StartOp("delete", k, <<>>) EXCEPT
                  !.st = "run",
                  !.calls = <<StoreCall("DEL", <<buildKey(cache.prefix, k)>>,
                                        Undefined, 0, <<>>)>>]]
  /\ UNCHANGED <<cache, redis, vvars, sig>>

\* lines 227-242: redis.del(fullKey) settles
deleteResumes(c, ok) ==
  /\ Awaits(c, "delete")
  /\ LET sent == cop[c].calls[1]
     IN /\ cop' = Forget([cop EXCEPT ![c] =
                            [@ EXCEPT !.st = "done",
                                      !.err = ~ok, !.thrown = IF ok THEN "none" ELSE "store",
                                      !.calls = Answer(@, ok)]],
                         IF ok THEN {sent.keys[1]} ELSE {})
        /\ redis' = IF ok THEN [redis EXCEPT ![sent.keys[1]] = Absent] ELSE redis
  /\ UNCHANGED <<cache, vvars, sig>>

\* lines 252-261: the call sets cursor "0" and deletedCount 0 and runs to
\* the first await redis.scan(...)
deleteByPattern(c, pat) ==
  /\ cop[c].st # "run"
  /\ cop' = [cop EXCEPT ![c] =
               [StartOp("deleteByPattern", pat, <<>>) EXCEPT
                  !.st = "run", !.phase = "scan",
                  !.calls = <<StoreCall("SCAN", <<buildKey(cache.prefix, pat)>>,
                                        Undefined, 0, <<"0">>)>>,
                  !.matched = Matching(redis, buildKey(cache.prefix, pat))]]
  /\ UNCHANGED <<cache, redis, vvars, sig>>

\* slip: the loop ends with the first empty batch
Scan_stopsOnEmpty(c, ok, batch, fin) ==
  /\ Awaits(c, "deleteByPattern") /\ cop[c].phase = "scan"
  /\ LET fullPattern == buildKey(cache.prefix, cop[c].key)
         nextCursor == IF fin THEN <<"0">> ELSE <<ToString(cop[c].scans + 1)>>
         n == Len(cop[c].calls)
         answered == [Answer(cop[c].calls, ok) EXCEPT ![n].out = batch, ![n].next = nextCursor]
         del == StoreCall("DEL", SeqOf(batch), Undefined, 0, <<>>)
         scan == StoreCall("SCAN", <<fullPattern>>, Undefined, 0, nextCursor)
         owed == IF cop[c].scans = 0 THEN Matching(redis, fullPattern) ELSE cop[c].due
     IN IF ~ok
        THEN /\ batch = {} /\ ~fin
             /\ cop' = [cop EXCEPT ![c] =
                          [@ EXCEPT !.st = "done", !.err = TRUE, !.thrown = "store",
                                    !.phase = "none", !.due = {},
                                    !.calls = Answer(@, ok)]]
        ELSE /\ batch \subseteq Matching(redis, fullPattern)
             /\ fin => owed \subseteq batch
             /\ ~fin => cop[c].scans + 1 < MaxScans
             /\ cop' = [cop EXCEPT ![c] =
                          [@ EXCEPT
                             !.cursor = nextCursor,
                             !.due = owed \ batch,
                             !.scans = @ + 1,
                             !.batch = batch,
                             !.calls = IF batch # {} THEN Append(answered, del) ELSE answered,
                             !.phase = IF batch # {} THEN "del" ELSE "none",
                             !.st = IF batch = {} THEN "done" ELSE "run"]]
  /\ UNCHANGED <<cache, redis, vvars, sig>>

\* lines 260-270: one SCAN settles: the store returns some of the matching
\* keys, and with cursor "0" at the latest every key that has been in the
\* store since the first SCAN of the iteration (owed); a key that came or
\* went meanwhile may be among them or not.  The loop goes on to the DEL of
\* the batch, to the next SCAN or to its end
Scan(c, ok, batch, fin) ==
  /\ Awaits(c, "deleteByPattern") /\ cop[c].phase = "scan"
  /\ LET fullPattern == buildKey(cache.prefix, cop[c].key)
         nextCursor == IF fin THEN <<"0">> ELSE <<ToString(cop[c].scans + 1)>>
         n == Len(cop[c].calls)
         answered == [Answer(cop[c].calls, ok) EXCEPT ![n].out = batch, ![n].next = nextCursor]
         del == StoreCall("DEL", SeqOf(batch), Undefined, 0, <<>>)
         scan == StoreCall("SCAN", <<fullPattern>>, Undefined, 0, nextCursor)
         owed == IF cop[c].scans = 0 THEN Matching(redis, fullPattern) ELSE cop[c].due
     IN IF ~ok
        THEN /\ batch = {} /\ ~fin
             /\ cop' = [cop EXCEPT ![c] =
                          [@ EXCEPT !.st = "done", !.err = TRUE, !.thrown = "store",
                                    !.phase = "none", !.due = {},
                                    !.calls = Answer(@, ok)]]
        ELSE /\ batch \subseteq Matching(redis, fullPattern)
             /\ fin => owed \subseteq batch
             /\ ~fin => cop[c].scans + 1 < MaxScans
             /\ cop' = [cop EXCEPT ![c] =
                          [@ EXCEPT
                             !.cursor = nextCursor,
                             !.due = owed \ batch,
                             !.scans = @ + 1,
                             !.batch = batch,
                             !.calls = IF batch # {} THEN Append(answered, del)
                                       ELSE IF fin THEN answered
                                       ELSE Append(answered, scan),
                             !.phase = IF batch # {} THEN "del"
                                       ELSE IF fin THEN "none" ELSE "scan",
                             !.st = IF batch = {} /\ fin THEN "done" ELSE "run"]]
  /\ UNCHANGED <<cache, redis, vvars, sig>>

\* slip: a failed DEL ends the loop and the count so far is returned
Del_swallows(c, ok) ==
  /\ Awaits(c, "deleteByPattern") /\ cop[c].phase = "del"
  /\ LET last == cop[c].cursor = <<"0">>
         fullPattern == buildKey(cache.prefix, cop[c].key)
         scan == StoreCall("SCAN", <<fullPattern>>, Undefined, 0, cop[c].cursor)
     IN IF ~ok
        THEN /\ cop' = [cop EXCEPT ![c] =
                          [@ EXCEPT !.st = "done",
                                    !.phase = "none", !.due = {},
                                    !.calls = Answer(@, ok)]]
             /\ redis' = redis
        ELSE /\ cop' = Forget([cop EXCEPT ![c] =
                          [@ EXCEPT
                             !.calls = IF last THEN Answer(@, ok)
                                       ELSE Append(Answer(@, ok), scan),
                             !.count = @ + Cardinality(cop[c].batch),
                             !.phase = IF last THEN "none" ELSE "scan",
                             !.st = IF last THEN "done" ELSE "run"]], cop[c].batch)
             /\ redis' = [fk \in StoreKeys |->
                            IF fk \in cop[c].batch THEN Absent ELSE redis[fk]]
  /\ UNCHANGED <<cache, vvars, sig>>

\* slip: the result counts the DEL calls, not the keys
Del_countsCalls(c, ok) ==
  /\ Awaits(c, "deleteByPattern") /\ cop[c].phase = "del"
  /\ LET last == cop[c].cursor = <<"0">>
         fullPattern == buildKey(cache.prefix, cop[c].key)
         scan == StoreCall("SCAN", <<fullPattern>>, Undefined, 0, cop[c].cursor)
     IN IF ~ok
        THEN /\ cop' = [cop EXCEPT ![c] =
                          [@ EXCEPT !.st = "done", !.err = TRUE, !.thrown = "store",
                                    !.phase = "none", !.due = {},
                                    !.calls = Answer(@, ok)]]
             /\ redis' = redis
        ELSE /\ cop' = Forget([cop EXCEPT ![c] =
                          [@ EXCEPT
                             !.calls = IF last THEN Answer(@, ok)
                                       ELSE Append(Answer(@, ok), scan),
                             !.count = @ + 1,
                             !.phase = IF last THEN "none" ELSE "scan",
                             !.st = IF last THEN "done" ELSE "run"]], cop[c].batch)
             /\ redis' = [fk \in StoreKeys |->
                            IF fk \in cop[c].batch THEN Absent ELSE redis[fk]]
  /\ UNCHANGED <<cache, vvars, sig>>

\* lines 270-275: the DEL of a batch settles; the loop goes on to the next
\* SCAN or to its end
Del(c, ok) ==
  /\ Awaits(c, "deleteByPattern") /\ cop[c].phase = "del"
  /\ LET last == cop[c].cursor = <<"0">>
         fullPattern == buildKey(cache.prefix, cop[c].key)
         scan == StoreCall("SCAN", <<fullPattern>>, Undefined, 0, cop[c].cursor)
     IN IF ~ok
        THEN /\ cop' = [cop EXCEPT ![c] =
                          [@ EXCEPT !.st = "done", !.err = TRUE, !.thrown = "store",
                                    !.phase = "none", !.due = {},
                                    !.calls = Answer(@, ok)]]
             /\ redis' = redis
        ELSE /\ cop' = Forget([cop EXCEPT ![c] =
                          [@ EXCEPT
                             !.calls = IF last THEN Answer(@, ok)
                                       ELSE Append(Answer(@, ok), scan),
                             !.count = @ + Cardinality(cop[c].batch),
                             !.phase = IF last THEN "none" ELSE "scan",
                             !.st = IF last THEN "done" ELSE "run"]], cop[c].batch)
             /\ redis' = [fk \in StoreKeys |->
                            IF fk \in cop[c].batch THEN Absent ELSE redis[fk]]
  /\ UNCHANGED <<cache, vvars, sig>>

\* lines 305-318: an empty list is answered at once; otherwise up to
\* await redis.mget(...fullKeys)
mget(c, ks) ==
  /\ cop[c].st # "run"
  /\ cache.hits + cache.misses + Outstanding(Callers) + Len(ks) <= MaxCount
  /\ cop' = [cop EXCEPT ![c] =
               IF ks = <<>> THEN [StartOp("mget", <<>>, ks) EXCEPT !.ret = JArr(<<>>)]
               ELSE [StartOp("mget", <<>>, ks) EXCEPT
                       !.st = "run",
                       !.calls = <<StoreCall("MGET",
                                             [i \in 1..Len(ks) |-> buildKey(cache.prefix, ks[i])],
                                             Undefined, 0, <<>>)>>]]
  /\ UNCHANGED <<cache, redis, vvars, sig>>

\* slip: one hit or one miss is counted per call, not per value
mgetResumes_countsCalls(c, ok) ==
  /\ Awaits(c, "mget")
  /\ LET ks == cop[c].keys
         fullKeys == cop[c].calls[1].keys
         values == [i \in 1..Len(ks) |-> redisRead(redis, fullKeys[i])]
         hits == Cardinality({i \in 1..Len(ks) : values[i] # Null})
         misses == Cardinality({i \in 1..Len(ks) : values[i] = Null})
         o == [cop[c] EXCEPT !.st = "done", !.calls = Answer(@, ok)]
     IN IF ~ok
        THEN /\ cache' = cache
             /\ cop' = [cop EXCEPT ![c] = [o EXCEPT !.err = TRUE, !.thrown = "store"]]
        ELSE /\ cache' = [cache EXCEPT !.hits = @ + (IF hits > 0 THEN 1 ELSE 0),
                                     !.misses = @ + (IF misses > 0 THEN 1 ELSE 0)]
             /\ cop' = [cop EXCEPT ![c] =
                          [o EXCEPT !.ret = JArr([i \in 1..Len(ks) |-> Decode(values[i])])]]
  /\ UNCHANGED <<redis, vvars, sig>>

\* lines 318-376: redis.mget(...fullKeys) settles
mgetResumes(c, ok) ==
  /\ Awaits(c, "mget")
  /\ LET ks == cop[c].keys
         fullKeys == cop[c].calls[1].keys
         values == [i \in 1..Len(ks) |-> redisRead(redis, fullKeys[i])]
         hits == Cardinality({i \in 1..Len(ks) : values[i] # Null})
         misses == Cardinality({i \in 1..Len(ks) : values[i] = Null})
         o == [cop[c] EXCEPT !.st = "done", !.calls = Answer(@, ok)]
     IN IF ~ok
        THEN /\ cache' = cache
             /\ cop' = [cop EXCEPT ![c] = [o EXCEPT !.err = TRUE, !.thrown = "store"]]
        ELSE /\ cache' = [cache EXCEPT !.hits = @ + hits, !.misses = @ + misses]
             /\ cop' = [cop EXCEPT ![c] =
                          [o EXCEPT !.ret = JArr([i \in 1..Len(ks) |-> Decode(values[i])])]]
  /\ UNCHANGED <<redis, vvars, sig>>

\* the value the pipeline of mset leaves under fullKey: of the queued SETs
\* the store carried out, the last one wins
RECURSIVE Piped(_, _, _, _, _)
Piped(sets, oks, fullKey, vals, old) ==
  IF sets = <<>> THEN old
  ELSE Piped(Tail(sets), Tail(oks), fullKey, Tail(vals),
             IF Head(oks) /\ Head(sets).keys[1] = fullKey
             THEN Held(toArg(Head(sets).text), Head(sets).ex, Head(vals))
             ELSE old)

\* lines 384-409: an empty list is a no-op; otherwise one queued SET per
\* entry, then up to await pipeline.exec()
mset(c, es) ==
  /\ cop[c].st # "run"
  /\ LET queued == [i \in 1..Len(es) |->
                     StoreCall("SET", <<buildKey(cache.prefix, es[i].key)>>,
                               JsonStringify(es[i].value), Expiry(es[i].ttl), <<>>)]
     IN cop' = [cop EXCEPT ![c] =
                  [StartOp("mset", <<>>, [i \in 1..Len(es) |-> es[i].key]) EXCEPT
                     !.st = IF es = <<>> THEN "done" ELSE "run",
                     !.ttls = [i \in 1..Len(es) |-> es[i].ttl],
                     !.vals = [i \in 1..Len(es) |-> es[i].value],
                     !.calls = IF es = <<>> THEN <<>>
                               ELSE Append(queued, StoreCall("EXEC", <<>>, Undefined, 0, <<>>))]]
  /\ UNCHANGED <<cache, redis, vvars, sig>>

\* lines 409-424: pipeline.exec() settles.  exec resolves with one
\* [error, result] pair per queued command, oks[i] telling whether SET i
\* was carried out, or rejects (ok false) with nothing done; line 409
\* awaits exec and drops what it resolves with
msetResumes(c, oks, ok) ==
  /\ Awaits(c, "mset")
  /\ Len(oks) = Len(cop[c].keys)
  /\ ~ok => \A i \in 1..Len(oks) : ~oks[i]
  /\ LET sent == cop[c].calls
     IN /\ cop' = [cop EXCEPT ![c] =
                     [@ EXCEPT !.st = "done",
                               !.err = ~ok, !.thrown = IF ok THEN "none" ELSE "store",
                               !.calls = [i \in 1..Len(sent) |->
                                            Reply(sent[i], IF i <= Len(oks) THEN oks[i] ELSE ok)]]]
        /\ redis' = IF ok
                    THEN [fk \in StoreKeys |-> Piped(SubSeq(sent, 1, Len(oks)), oks, fk,
                                                     cop[c].vals, redis[fk])]
                    ELSE redis
  /\ UNCHANGED <<cache, vvars, sig>>

\* lines 450-455
resetMetrics(c) ==
  /\ cop[c].st # "run"
  /\ cache' = [cache EXCEPT !.hits = 0, !.misses = 0]
  /\ cop' = [cop EXCEPT ![c] = StartOp("resetMetrics", <<>>, <<>>)]
  /\ UNCHANGED <<redis, vvars, sig>>

\* slip: the quotient is taken without the test for an empty total
getHitRate_unguarded(c) ==
  /\ cop[c].st # "run"
  /\ LET total == cache.hits + cache.misses
     IN cop' = [cop EXCEPT ![c] = [StartOp("getHitRate", <<>>, <<>>) EXCEPT
                                     !.rate = Divide(cache.hits, total)]]
  /\ UNCHANGED <<cache, redis, vvars, sig>>

\* lines 432-438
getHitRate(c) ==
  /\ cop[c].st # "run"
  /\ LET total == cache.hits + cache.misses
     IN cop' = [cop EXCEPT ![c] =
                  [StartOp("getHitRate", <<>>, <<>>) EXCEPT
                     !.rate = IF total = 0 THEN Zero ELSE Divide(cache.hits, total)]]
  /\ UNCHANGED <<cache, redis, vvars, sig>>

\* slip: the object the instance keeps is handed out itself
getMetrics_alias(c) ==
  /\ cop[c].st # "run"
  /\ cop' = [cop EXCEPT ![c] =
               [StartOp("getMetrics", <<>>, <<>>) EXCEPT
                  !.snap = [has |-> TRUE, alias |-> TRUE,
                            hits |-> cache.hits, misses |-> cache.misses]]]
  /\ UNCHANGED <<cache, redis, vvars, sig>>

\* lines 443-446: a fresh object with the two fields copied
getMetrics(c) ==
  /\ cop[c].st # "run"
  /\ cop' = [cop EXCEPT ![c] =
               [StartOp("getMetrics", <<>>, <<>>) EXCEPT
                  !.snap = [has |-> TRUE, alias |-> FALSE,
                            hits |-> cache.hits, misses |-> cache.misses]]]
  /\ UNCHANGED <<cache, redis, vvars, sig>>

\* the caller assigns to the fields of the object getMetrics() gave it; an
\* assignment to an object two owners share is seen by both
callerMutates(c, h, m) ==
  /\ cop[c].name = "getMetrics" /\ cop[c].snap.has
  /\ cop' = [cop EXCEPT ![c].snap.hits = h, ![c].snap.misses = m]
  /\ cache' = IF cop[c].snap.alias THEN [cache EXCEPT !.hits = h, !.misses = m] ELSE cache
  /\ UNCHANGED <<redis, vvars, sig>>

\* lib/auth.ts lines 83-89, secondaryStorage.set on the same connection:
\* SET key value EX ttl when ttl is truthy, a plain SET otherwise.  The store
\* refuses an expiry that is not positive and the entry stays as it was.
secondaryStorageSet(fk, text, ttl) ==
  /\ redis' = IF ~Truthy(ttl) THEN [redis EXCEPT ![fk] = Held(text, 0, Undefined)]
               ELSE IF NumberValue(ttl) > 0
                 THEN [redis EXCEPT ![fk] = Held(text, NumberValue(ttl), Undefined)]
               ELSE redis
  /\ UNCHANGED <<cache, cop, vvars, sig>>

\* lib/auth.ts lines 86-88, secondaryStorage.set without a ttl: a plain SET
\* by another user of the same connection
OtherClientSet(fk, text) == secondaryStorageSet(fk, text, Undefined)

\* lib/auth.ts lines 90-92, secondaryStorage.delete on the same connection:
\* DEL key
secondaryStorageDelete(fk) ==
  /\ redis' = [redis EXCEPT ![fk] = Absent]
  /\ cop' = Forget(cop, {fk})
  /\ UNCHANGED <<cache, vvars, sig>>

\* the store drops an entry whose expiry has run out
redisExpire(fk) ==
  /\ redis[fk].has /\ redis[fk].ex > 0
  /\ redis' = [redis EXCEPT ![fk] = Absent]
  /\ cop' = Forget(cop, {fk})
  /\ UNCHANGED <<cache, vvars, sig>>

\* the Verifier on the same connection: redis.setex(cacheKey, TURNSTILE_CACHE_TTL, "true")
verifierSetex(k) ==
  /\ redis' = [redis EXCEPT ![KeyText(k)] =
                 Held(<<"t", "r", "u", "e">>, TURNSTILE_CACHE_TTL, Undefined)]
  /\ UNCHANGED <<cache, cop, vvars, sig>>

\* the Verifier on the same connection: redis.del(cacheKey) after a cache hit
verifierDel(k) ==
  /\ redis[KeyText(k)].has
  /\ redis' = [redis EXCEPT ![KeyText(k)] = Absent]
  /\ cop' = Forget(cop, {KeyText(k)})
  /\ UNCHANGED <<cache, vvars, sig>>

\* inputs of the operations
OpValues  == {Num("7")}
OpTtls    == {Undefined, NumD(<<"6", "0">>)}
KeyLists  == {<<>>, << <<"a">> >>, << <<"b">>, <<"a">> >>}
Entries   ==
  {<<>>,
   << [key |-> <<"a">>, value |-> Num("7"), ttl |-> Undefined] >>,
   << [key |-> <<"b">>, value |-> Num("7"), ttl |-> NumD(<<"6", "0">>)],
      [key |-> <<"a">>, value |-> Num("7"), ttl |-> Num("0")] >>}
Outcomes  == UNION {[1..n -> BOOLEAN] : n \in 0..2}
OtherKeys == {buildKey(DefaultPrefix, <<"a">>), RateKey}
OtherTtls == {Undefined, Num("0"), NumD(<<"6", "0">>), NumD(<<"-", "1">>)}
RoundKeys == {<<"a">>}

\* the Cache Service reads nothing of process.env; the instance is the
\* exported one or one constructed with another prefix
InitCache ==
  /\ env = [TURNSTILE_ENABLED |-> Undefined, TURNSTILE_SECRET_KEY |-> Undefined,
            TURNSTILE_BYPASS_TOKEN |-> Undefined, NODE_ENV |-> SProduction]
  /\ store = [k \in Keys |-> NoEntry]
  /\ pc = [p \in Workers |-> "idle"]
  /\ call = [p \in Workers |-> NoCall]
  /\ gate = [p \in Workers |-> NoGate]
  /\ log = <<>>
  /\ cache \in {NewCache(q) : q \in CachePrefixes}
  /\ redis = [fk \in StoreKeys |-> Absent]
  /\ cop = [c \in Callers |-> NoOp]
  /\ sig = NoSig

\* what a SCAN of caller c may hand back: keys the store holds that match
Batches(c) == SUBSET Matching(redis, buildKey(cache.prefix, cop[c].key))

\* all operations of the instance, one after the other; at any time, also
\* while an operation waits for the store, other clients write to the store
\* and entries expire
NextCache ==
  \/ \E c \in Lead, k \in CacheKeys : get(c, k)
  \/ \E c \in Lead, ok \in BOOLEAN : getResumes(c, ok)
  \/ \E c \in Lead, k \in CacheKeys, v \in OpValues, ttl \in OpTtls : set(c, k, v, ttl)
  \/ \E c \in Lead, ok \in BOOLEAN : setResumes(c, ok)
  \/ \E c \in Lead, k \in CacheKeys : delete(c, k)
  \/ \E c \in Lead, ok \in BOOLEAN : deleteResumes(c, ok)
  \/ \E c \in Lead, pat \in CachePatterns : deleteByPattern(c, pat)
  \/ \E c \in Lead : \E ok \in BOOLEAN, batch \in Batches(c), fin \in BOOLEAN :
       Scan(c, ok, batch, fin)
  \/ \E c \in Lead, ok \in BOOLEAN : Del(c, ok)
  \/ \E c \in Lead, ks \in KeyLists : mget(c, ks)
  \/ \E c \in Lead, ok \in BOOLEAN : mgetResumes(c, ok)
  \/ \E c \in Lead, es \in Entries : mset(c, es)
  \/ \E c \in Lead, oks \in Outcomes, ok \in BOOLEAN : msetResumes(c, oks, ok)
  \/ \E c \in Lead : resetMetrics(c)
  \/ \E fk \in OtherKeys, text \in RawTexts : OtherClientSet(fk, text)
  \/ \E fk \in StoreKeys : redisExpire(fk)

SpecCache == InitCache /\ [][NextCache]_vars

\* set and get of every kind of value under one key, with and without a
\* TTL; beside them a second caller sets the key, and the session storage
\* of lib/auth.ts, another client of the store, writes and deletes it
NextRound ==
  \/ \E c \in Lead, k \in RoundKeys : get(c, k)
  \/ \E c \in Lead, ok \in BOOLEAN : getResumes(c, ok)
  \/ \E c \in Lead, k \in RoundKeys, v \in RoundValues, ttl \in OpTtls : set(c, k, v, ttl)
  \/ \E c \in Side, k \in RoundKeys, v \in OpValues : set(c, k, v, Undefined)
  \/ \E c \in Callers, ok \in BOOLEAN : setResumes(c, ok)
  \/ \E c \in Lead, k \in RoundKeys : delete(c, k)
  \/ \E c \in Lead, ok \in BOOLEAN : deleteResumes(c, ok)
  \/ \E c \in Lead : resetMetrics(c)
  \/ \E k \in RoundKeys, text \in RawTexts, ttl \in OtherTtls :
       secondaryStorageSet(buildKey(cache.prefix, k), text, ttl)
  \/ \E k \in RoundKeys : secondaryStorageDelete(buildKey(cache.prefix, k))
  \/ \E k \in RoundKeys : redisExpire(buildKey(cache.prefix, k))

SpecRound == InitCache /\ [][NextRound]_vars

\* the key of the instance holds nothing
Fresh(k) == ~redis[buildKey(cache.prefix, k)].has

\* a value of any kind is set under a key that holds nothing, with and
\* without a TTL, read, overwritten and deleted; beside the caller another
\* client of the store writes the key and the entry expires
NextTrip ==
  \/ \E c \in Lead, k \in RoundKeys : get(c, k)
  \/ \E c \in Lead, ok \in BOOLEAN : getResumes(c, ok)
  \/ \E c \in Lead, k \in RoundKeys, v \in TripValues, ttl \in OpTtls :
       Fresh(k) /\ set(c, k, v, ttl)
  \/ \E c \in Lead, k \in RoundKeys, v \in OpValues : set(c, k, v, Undefined)
  \/ \E c \in Lead, ok \in BOOLEAN : setResumes(c, ok)
  \/ \E c \in Lead, k \in RoundKeys : delete(c, k)
  \/ \E c \in Lead, ok \in BOOLEAN : deleteResumes(c, ok)
  \/ \E k \in RoundKeys, text \in RawTexts :
       OtherClientSet(buildKey(cache.prefix, k), text)
  \/ \E k \in RoundKeys : redisExpire(buildKey(cache.prefix, k))

SpecTrip == InitCache /\ [][NextTrip]_vars

\* the counters and their readers
CallerValues == {0, 9}

NextMetrics ==
  \/ \E c \in Callers, k \in CacheKeys : get(c, k)
  \/ \E c \in Callers, ok \in BOOLEAN : getResumes(c, ok)
  \/ \E c \in Lead, ks \in KeyLists : mget(c, ks)
  \/ \E c \in Lead, ok \in BOOLEAN : mgetResumes(c, ok)
  \/ \E c \in Lead, k \in RoundKeys, v \in OpValues, ttl \in OpTtls : set(c, k, v, ttl)
  \/ \E c \in Lead, ok \in BOOLEAN : setResumes(c, ok)
  \/ \E c \in Lead : resetMetrics(c)
  \/ \E c \in Lead : getHitRate(c)
  \/ \E c \in Callers : getMetrics(c)
  \/ \E c \in Lead, h \in CallerValues, m \in CallerValues : callerMutates(c, h, m)
  \/ \E fk \in StoreKeys : redisExpire(fk)

SpecMetrics == InitCache /\ [][NextMetrics]_vars

\* set and mset with every kind of TTL argument
TtlEntries ==
  {<<>>,
   << [key |-> <<"a">>, value |-> Num("7"), ttl |-> NumD(<<"-", "1">>)],
      [key |-> <<"b">>, value |-> Num("7"), ttl |-> NumD(<<"6", "0">>)] >>,
   << [key |-> <<"a">>, value |-> Num("7"), ttl |-> NumD(<<"6", "0">>)],
      [key |-> <<"b">>, value |-> Num("7"), ttl |-> Num("0")] >>,
   << [key |-> <<"b">>, value |-> Num("7"), ttl |-> Undefined] >>}

NextTtl ==
  \/ \E c \in Callers, k \in RoundKeys, v \in OpValues, ttl \in Ttls : set(c, k, v, ttl)
  \/ \E c \in Callers, ok \in BOOLEAN : setResumes(c, ok)
  \/ \E c \in Lead, es \in TtlEntries : mset(c, es)
  \/ \E c \in Lead, oks \in Outcomes, ok \in BOOLEAN : msetResumes(c, oks, ok)
  \/ \E c \in Lead, k \in CacheKeys : delete(c, k)
  \/ \E c \in Lead, ok \in BOOLEAN : deleteResumes(c, ok)
  \/ \E fk \in StoreKeys : redisExpire(fk)

SpecTtl == InitCache /\ [][NextTtl]_vars

\* get and set with instrumentation that works or throws
NextInstr ==
  \/ \E c \in Callers, k \in CacheKeys : get(c, k)
  \/ \E c \in Callers, ok \in BOOLEAN : getResumes(c, ok)
  \/ \E c \in Lead, ok \in BOOLEAN : getResumesThrowing(c, ok)
  \/ \E c \in Lead, k \in RoundKeys, v \in OpValues, ttl \in OpTtls : set(c, k, v, ttl)
  \/ \E c \in Lead, ok \in BOOLEAN : setResumes(c, ok)
  \/ \E c \in Lead, ok \in BOOLEAN : setResumesThrowing(c, ok)
  \/ \E c \in Lead : resetMetrics(c)
  \/ \E fk \in StoreKeys : redisExpire(fk)

SpecInstr == InitCache /\ [][NextInstr]_vars

\* reads of strings that other clients left in the store: no JSON text, a
\* number followed by a letter, an array cut short, and one valid text
StoredTexts == {<<"h", "i">>, <<"7", "x">>, <<"[", "1", ",">>, <<"7">>}
SharedKeys == {buildKey(DefaultPrefix, k) : k \in CacheKeys}

NextRaw ==
  \/ \E c \in Callers, k \in CacheKeys : get(c, k)
  \/ \E c \in Callers, ok \in BOOLEAN : getResumes(c, ok)
  \/ \E c \in Lead, ks \in KeyLists : mget(c, ks)
  \/ \E c \in Lead, ok \in BOOLEAN : mgetResumes(c, ok)
  \/ \E c \in Lead, k \in RoundKeys : delete(c, k)
  \/ \E c \in Lead, ok \in BOOLEAN : deleteResumes(c, ok)
  \/ \E c \in Lead : resetMetrics(c)
  \/ \E fk \in SharedKeys, text \in StoredTexts : OtherClientSet(fk, text)

SpecRaw == InitCache /\ [][NextRaw]_vars

\* every operation of the instance, on a store no other client touches; a
\* second caller reads and asks for the counters while the operations of
\* the first wait for the store
NextCounters ==
  \/ \E c \in Callers, k \in CacheKeys : get(c, k)
  \/ \E c \in Callers, ok \in BOOLEAN : getResumes(c, ok)
  \/ \E c \in Lead, k \in RoundKeys, v \in OpValues, ttl \in OpTtls : set(c, k, v, ttl)
  \/ \E c \in Lead, ok \in BOOLEAN : setResumes(c, ok)
  \/ \E c \in Lead, k \in RoundKeys : delete(c, k)
  \/ \E c \in Lead, ok \in BOOLEAN : deleteResumes(c, ok)
  \/ \E c \in Lead, pat \in CachePatterns : deleteByPattern(c, pat)
  \/ \E c \in Lead : \E ok \in BOOLEAN, batch \in Batches(c), fin \in BOOLEAN :
       Scan(c, ok, batch, fin)
  \/ \E c \in Lead, ok \in BOOLEAN : Del(c, ok)
  \/ \E c \in Lead, ks \in KeyLists : mget(c, ks)
  \/ \E c \in Lead, ok \in BOOLEAN : mgetResumes(c, ok)
  \/ \E c \in Lead, es \in Entries : mset(c, es)
  \/ \E c \in Lead, oks \in Outcomes, ok \in BOOLEAN : msetResumes(c, oks, ok)
  \/ \E c \in Lead : resetMetrics(c)
  \/ \E c \in Callers : getMetrics(c)
  \/ \E c \in Lead : getHitRate(c)

SpecCounters == InitCache /\ [][NextCounters]_vars

\* no operation of the instance is suspended at a store call
Quiet == \A c \in Callers : cop[c].st # "run"

\* deleteByPattern on a store that nothing else touches while it runs: the
\* other operations and the other clients act while no sweep is under way
NextScan ==
  \/ \E c \in Lead, k \in CacheKeys, v \in OpValues, ttl \in OpTtls :
       Quiet /\ set(c, k, v, ttl)
  \/ \E c \in Lead, ok \in BOOLEAN : setResumes(c, ok)
  \/ \E c \in Lead, pat \in CachePatterns : Quiet /\ deleteByPattern(c, pat)
  \/ \E c \in Lead : \E ok \in BOOLEAN, batch \in Batches(c), fin \in BOOLEAN :
       Scan(c, ok, batch, fin)
  \/ \E c \in Lead, ok \in BOOLEAN : Del(c, ok)
  \/ \E fk \in OtherKeys, text \in RawTexts : Quiet /\ OtherClientSet(fk, text)
  \/ \E fk \in OtherKeys, text \in RawTexts, ttl \in OtherTtls :
       Quiet /\ secondaryStorageSet(fk, text, ttl)
  \/ \E fk \in OtherKeys : Quiet /\ secondaryStorageDelete(fk)
  \/ \E fk \in StoreKeys : Quiet /\ redisExpire(fk)

SpecScan == InitCache /\ [][NextScan]_vars

\* the store answers every SCAN and DEL it is sent, and hands back cursor
\* "0" after at most MaxScans scans
SpecScanLive ==
  /\ InitCache /\ [][NextScan]_vars
  /\ \A c \in Callers :
       /\ WF_vars(\E ok \in BOOLEAN, batch \in Batches(c), fin \in BOOLEAN :
                    Scan(c, ok, batch, fin))
       /\ WF_vars(\E ok \in BOOLEAN : Del(c, ok))

\* The exported default instance beside the Verifier and the rate limiter,
\* all three on one connection; a second caller of the instance sets a key
\* and the session storage of lib/auth.ts deletes one while an operation of
\* the first waits for the store.
InitDefault == InitCache /\ cache.prefix = DefaultPrefix

NsKeys     == {<<"a">>, RateSuffix}
NsLists    == {<<>>, << <<"a">> >>, <<RateSuffix, <<"a">> >>}
NsEntries  == {<<>>, << [key |-> <<"a">>, value |-> Num("7"), ttl |-> Undefined] >>,
               << [key |-> RateSuffix, value |-> Num("7"), ttl |-> Undefined] >>}
NsVerifier == {generateCacheKey(TokA, Ip1)}

NextNamespace ==
  \/ \E c \in Lead, k \in NsKeys : get(c, k)
  \/ \E c \in Lead, ok \in BOOLEAN : getResumes(c, ok)
  \/ \E c \in Lead, k \in NsKeys, v \in OpValues : set(c, k, v, Undefined)
  \/ \E c \in Side, k \in RoundKeys : set(c, k, Num("7"), Undefined)
  \/ \E c \in Callers, ok \in BOOLEAN : setResumes(c, ok)
  \/ \E c \in Lead, k \in NsKeys : delete(c, k)
  \/ \E c \in Lead, ok \in BOOLEAN : deleteResumes(c, ok)
  \/ \E c \in Lead, pat \in CachePatterns : deleteByPattern(c, pat)
  \/ \E c \in Lead : \E ok \in BOOLEAN, batch \in Batches(c), fin \in BOOLEAN :
       Scan(c, ok, batch, fin)
  \/ \E c \in Lead, ok \in BOOLEAN : Del(c, ok)
  \/ \E c \in Lead, ks \in NsLists : mget(c, ks)
  \/ \E c \in Lead, ok \in BOOLEAN : mgetResumes(c, ok)
  \/ \E c \in Lead, es \in NsEntries : mset(c, es)
  \/ \E c \in Lead, oks \in Outcomes, ok \in BOOLEAN : msetResumes(c, oks, ok)
  \/ \E k \in NsVerifier : verifierSetex(k)
  \/ \E k \in NsVerifier : verifierDel(k)
  \/ \E text \in RawTexts : OtherClientSet(RateKey, text)
  \/ secondaryStorageDelete(RateKey)

SpecNamespace == InitDefault /\ [][NextNamespace]_vars

(***************************************************************************)
(* Operations on the cleanup handlers                                      *)
(***************************************************************************)
\* slip: the test of the flag is missing
registerCleanupHandlers_unguarded ==
  /\ sig.made + 2 <= MaxHandlers
  /\ LET hInt == Handler(sig.made + 1)
         hTerm == Handler(sig.made + 2)
     IN sig' = [sig EXCEPT
                  !.sigintHandler = hInt, !.sigtermHandler = hTerm,
                  !.listeners = [s \in Signals |->
                                   Append(sig.listeners[s],
                                          IF s = "SIGINT" THEN hInt ELSE hTerm)],
                  !.registered = TRUE, !.made = @ + 2,
                  !.last = "registerCleanupHandlers", !.early = FALSE]
  /\ UNCHANGED <<vvars, cvars>>

\* redis.ts lines 141-162
registerCleanupHandlers ==
  /\ sig.registered \/ sig.made + 2 <= MaxHandlers
  /\ LET hInt == Handler(sig.made + 1)
         hTerm == Handler(sig.made + 2)
     IN IF sig.registered
        THEN sig' = [sig EXCEPT !.last = "registerCleanupHandlers", !.early = TRUE]
        ELSE sig' = [sig EXCEPT
                       !.sigintHandler = hInt, !.sigtermHandler = hTerm,
                       !.listeners = [s \in Signals |->
                                        Append(sig.listeners[s],
                                               IF s = "SIGINT" THEN hInt ELSE hTerm)],
                       !.registered = TRUE, !.made = @ + 2,
                       !.last = "registerCleanupHandlers", !.early = FALSE]
  /\ UNCHANGED <<vvars, cvars>>

\* redis.ts lines 168-185
unregisterCleanupHandlers ==
  /\ IF ~sig.registered
     THEN sig' = [sig EXCEPT !.last = "unregisterCleanupHandlers", !.early = TRUE]
     ELSE sig' = [sig EXCEPT
                    !.listeners =
                      [s \in Signals |->
                         LET h == IF s = "SIGINT" THEN sig.sigintHandler
                                  ELSE sig.sigtermHandler
                         IN IF h # NoHandler THEN RemoveListener(sig.listeners[s], h)
                            ELSE sig.listeners[s]],
                    !.sigintHandler = NoHandler, !.sigtermHandler = NoHandler,
                    !.registered = FALSE,
                    !.last = "unregisterCleanupHandlers", !.early = FALSE]
  /\ UNCHANGED <<vvars, cvars>>

\* redis.ts lines 191-193
areCleanupHandlersRegistered ==
  /\ sig' = [sig EXCEPT !.last = "areCleanupHandlersRegistered", !.early = FALSE,
                        !.ret = sig.registered]
  /\ UNCHANGED <<vvars, cvars>>

\* other code of the process listens to a signal as well
otherOn(s) ==
  /\ Cardinality({i \in 1..Len(sig.listeners[s]) : sig.listeners[s][i] = OtherListener})
       < MaxOthers
  /\ sig' = [sig EXCEPT !.listeners[s] = Append(@, OtherListener)]
  /\ UNCHANGED <<vvars, cvars>>

NextCleanup ==
  \/ registerCleanupHandlers
  \/ unregisterCleanupHandlers
  \/ areCleanupHandlersRegistered
  \/ \E s \in Signals : otherOn(s)

SpecCleanup == InitCache /\ [][NextCleanup]_vars

TypeOK ==
  /\ env \in Envs
  /\ \A k \in Keys : store[k] \in {NoEntry, Entry(STrue, TURNSTILE_CACHE_TTL)}
  /\ \A p \in Workers : pc[p] \in {"idle", "v_get", "v_del", "v_fetch", "v_json", "v_set", "v_ret"}

(***************************************************************************)
(* Properties of the Gate                                                  *)
(***************************************************************************)
Gated(r) == r.path = "/sign-up/email" \/ r.path = "/sign-in/email"
HasToken(r) == r.hasBody /\ Truthy(r.token)
NoToken(r) == r.hasBody /\ ~Truthy(r.token)
SubsystemEnabled == env.TURNSTILE_ENABLED = STrue
ResolvedIp(r) == IF r.ip # Undefined THEN r.ip ELSE r.remoteAddress
PassedThrough(g) == g.nextCalls = 1 /\ g.status = 0 /\ g.json = NoJson /\ ~g.threw
Responded(g, code, body) ==
  g.nextCalls = 0 /\ g.status = code /\ g.json = body /\ ~g.threw

\* C1: a request to a gated path that carries a token makes the Gate invoke
\* the Verifier exactly once with (token, req.ip if set, otherwise
\* req.socket.remoteAddress); nothing is written and next() is not called
\* while the Verifier runs; a false verdict gives the fixed 403 response and
\* no next(), a true verdict gives next() and no response.
C1_GateTokenPresent ==
  \A p \in Procs :
    LET g == gate[p] IN
    (g.st # "none" /\ Gated(g.req) /\ HasToken(g.req)) =>
      /\ g.verifier = << <<g.req.token, ResolvedIp(g.req)>> >>
      /\ call[p].token = g.req.token /\ call[p].ip = ResolvedIp(g.req)
      /\ g.st = "run" => g.nextCalls = 0 /\ g.status = 0 /\ g.json = NoJson
      /\ (g.st = "done" /\ ~call[p].result) => Responded(g, 403, Json403)
      /\ (g.st = "done" /\ call[p].result) => PassedThrough(g)

C1_Witness ==
  \E p \in Procs :
    /\ gate[p].st = "done" /\ gate[p].status = 403
    /\ gate[p].req.ip = Undefined /\ gate[p].req.remoteAddress = Ip2
    /\ gate[p].verifier = << <<TokA, Ip2>> >>
    /\ call[p].remote = "success_false"

\* C2: a request to a gated path without a token, while TURNSTILE_ENABLED is
\* "true", is answered 400 {error: "Bad Request", message: "Turnstile
\* verification required"}; next() is not called and the Verifier is not
\* invoked.
C2_GateTokenMissingEnabled ==
  \A p \in Procs :
    LET g == gate[p] IN
    (g.st # "none" /\ Gated(g.req) /\ NoToken(g.req) /\ SubsystemEnabled) =>
      /\ g.st = "done"
      /\ Responded(g, 400, Json400)
      /\ g.verifier = <<>> /\ call[p] = NoCall

C2_Witness ==
  \E p \in Procs :
    /\ gate[p].st = "done" /\ gate[p].status = 400
    /\ gate[p].req.path = "/sign-up/email" /\ gate[p].req.token = Undefined
    /\ \E k \in Keys : store[k] # NoEntry

\* C3: a request to a gated path without a token, while TURNSTILE_ENABLED is
\* not "true", calls next(), writes no response and does not invoke the
\* Verifier.
C3_GateTokenMissingDisabled ==
  \A p \in Procs :
    LET g == gate[p] IN
    (g.st # "none" /\ Gated(g.req) /\ NoToken(g.req) /\ ~SubsystemEnabled) =>
      /\ g.st = "done"
      /\ PassedThrough(g)
      /\ g.verifier = <<>> /\ call[p] = NoCall

C3_Witness ==
  \E p \in Procs :
    /\ gate[p].st = "done" /\ gate[p].nextCalls = 1
    /\ gate[p].req.path = "/sign-in/email" /\ gate[p].req.token = SEmpty
    /\ env.TURNSTILE_ENABLED = Undefined

\* C4: a request to any other path, whatever the enabled flag and the body
\* (an absent body included), calls next() exactly once, writes no response,
\* does not read the body and does not invoke the Verifier.
C4_GateOtherPath ==
  \A p \in Procs :
    LET g == gate[p] IN
    (g.st # "none" /\ ~Gated(g.req)) =>
      /\ g.st = "done"
      /\ PassedThrough(g)
      /\ ~g.bodyRead
      /\ g.verifier = <<>> /\ call[p] = NoCall

C4_Witness ==
  \E p \in Procs :
    /\ gate[p].st = "done" /\ gate[p].req.path = "/health"
    /\ ~gate[p].req.hasBody /\ gate[p].nextCalls = 1
    /\ SubsystemEnabled

\* C5: every request ends in exactly one of: next() with no response, a 400
\* response, a 403 response; the Gate never throws, never produces another
\* status and never both calls next() and writes a response.
C5_GateOutcomesClosed ==
  \A p \in Procs :
    LET g == gate[p] IN
    g.st = "done" =>
      \/ PassedThrough(g)
      \/ Responded(g, 400, Json400)
      \/ Responded(g, 403, Json403)

(***************************************************************************)
(* Properties of the Verifier                                              *)
(***************************************************************************)
SecretConfigured ==
  env.TURNSTILE_SECRET_KEY.t = "string" /\ env.TURNSTILE_SECRET_KEY.v # <<>>
WellFormed(tk) == tk.t = "string" /\ tk.v # <<>>
BypassInEffect(tk) ==
  env.NODE_ENV # SProduction /\ env.TURNSTILE_BYPASS_TOKEN = tk
HasOp(c, name, ok) == \E i \in 1..Len(c.ops) : c.ops[i].op = name /\ c.ops[i].ok = ok
Issued(c, name) == \E i \in 1..Len(c.ops) : c.ops[i].op = name
ReadEntry(c) ==
  \E i \in 1..Len(c.ops) : c.ops[i].op = "get" /\ c.ops[i].ok /\ c.ops[i].val # Null
RemoteFailed(c) == c.remote \notin {"none", "success_true"}

\* C6: subsystem enabled, secret configured, working store, remote API that
\* accepts the token, no entry cached beforehand: of three consecutive calls
\* with the same well-formed (non-bypass) token and IP, the first makes one
\* remote call and resolves true, the second resolves true without a remote
\* call, the third makes a remote call again.
C6_CacheSequence ==
  ( /\ Len(log) = 3
    /\ SubsystemEnabled /\ SecretConfigured
    /\ WellFormed(log[1].token) /\ ~BypassInEffect(log[1].token)
    /\ ~log[1].pre
    /\ \A i \in 1..3 : log[i].storeOK /\ log[i].remote # "reject" )
  => /\ log[1].fetches = 1 /\ log[1].result
     /\ log[2].fetches = 0 /\ log[2].result
     /\ log[3].fetches = 1

C6_Witness ==
  /\ Len(log) = 3
  /\ log[1].token = TokA /\ ~log[1].pre
  /\ \A i \in 1..3 : log[i].storeOK /\ log[i].remote # "reject"
  /\ log[1].fetches = 1 /\ log[2].hit /\ log[3].remote = "accept"
  /\ env.TURNSTILE_BYPASS_TOKEN = TokC /\ env.NODE_ENV = SDevelop

\* C7: a call whose remote verification fails (success false or missing,
\* non-OK status, network error, unparsable JSON) issues no store write and
\* resolves false; an entry appears in the store only by the write of a call
\* whose remote verification succeeded; consecutive calls with the same token
\* and IP that the remote API rejects call the remote API every time.
C7_NoWriteOnFailure ==
  \A p \in Procs :
    RemoteFailed(call[p]) => ~Issued(call[p], "setex") /\ ~call[p].result

C7_EntryFromSuccess ==
  \A k \in Keys :
    (store[k] = NoEntry /\ store'[k] # NoEntry) =>
      \E p \in Procs :
        /\ call[p].key = k /\ call[p].remote = "success_true"
        /\ HasOp(call'[p], "setex", TRUE)
        /\ store'[k] = Entry(STrue, TURNSTILE_CACHE_TTL)

C7_RepeatCallsRemote ==
  /\ \A i \in 1..(Len(log) - 1) :
       (log[i].remote = "reject" /\ log[i].storeOK) => log[i + 1].fetches = 1
  /\ (/\ log # <<>>
      /\ SubsystemEnabled /\ SecretConfigured
      /\ WellFormed(log[1].token) /\ ~BypassInEffect(log[1].token)
      /\ ~log[1].pre
      /\ \A i \in 1..Len(log) : log[i].remote # "accept")
     => \A i \in 1..Len(log) : log[i].fetches = 1 /\ ~log[i].result

C7_FailedNeverCached ==
  /\ [](C7_NoWriteOnFailure /\ C7_RepeatCallsRemote)
  /\ [][C7_EntryFromSuccess]_vars

C7_Witness ==
  /\ Len(log) = 3
  /\ \A i \in 1..3 : log[i].remote = "reject" /\ log[i].fetches = 1
  /\ call[1].remote = "success_false"
  /\ \E k \in Keys : store[k] # NoEntry

\* C8 as stated: whenever a call reads a non-null entry for its key, it
\* deletes that key before returning and returns the cached verdict without
\* calling the remote API.
C8_ReadAlwaysConsumes ==
  \A p \in Procs :
    (call[p].st = "done" /\ ReadEntry(call[p])) =>
      /\ HasOp(call[p], "del", TRUE)
      /\ ~Issued(call[p], "fetch")
      /\ call[p].result = (call[p].cached = STrue)

\* C8 amended: whenever a call reads a non-null entry for its key and the
\* delete of that key does not fail, the key is gone from the store when the
\* call returns and the call returns the cached verdict without calling the
\* remote API; two consecutive calls with the same token and IP never both
\* take their verdict from the cache.
C8_SingleUse ==
  /\ \A p \in Procs :
       (call[p].st = "done" /\ ReadEntry(call[p]) /\ ~HasOp(call[p], "del", FALSE)) =>
         /\ call[p].ops[2] = Op("del", call[p].ops[1].key, TRUE, Null, 0)
         /\ call[p].ops[1].key = call[p].key
         /\ store[call[p].key] = NoEntry
         /\ ~Issued(call[p], "fetch")
         /\ call[p].result = (call[p].cached = STrue)
  /\ \A i \in 1..(Len(log) - 1) : ~(log[i].hit /\ log[i + 1].hit)

C8_Witness ==
  /\ Len(log) = 3
  /\ log[1].remote = "accept" /\ log[2].hit /\ log[3].fetches = 1
  /\ call[1].st = "done" /\ ~ReadEntry(call[1])

\* C9: when TURNSTILE_ENABLED is not "true", verifyTurnstileToken resolves
\* true for every token and IP, without a remote API call and without any
\* store read, write or delete.
C9_Disabled ==
  \A p \in Procs :
    (call[p].st # "none" /\ ~SubsystemEnabled) =>
      /\ call[p].result
      /\ call[p].ops = <<>> /\ call[p].remote = "none"
      /\ pc[p] \in {"v_ret", "idle"}
      /\ \A k \in Keys : store[k] = NoEntry

C9_Witness ==
  \E p \in Procs :
    /\ call[p].st = "done" /\ call[p].token = Null /\ call[p].ip = Ip1
    /\ env.TURNSTILE_ENABLED = SFalse /\ call[p].result

\* C10: when the subsystem is enabled and no secret is configured, or the
\* token is an empty string or not a string, verifyTurnstileToken resolves
\* false before any store access and any remote API call, whatever the cache
\* contents and the bypass configuration.
C10_EarlyRejection ==
  \A p \in Procs :
    ( /\ call[p].st # "none"
      /\ SubsystemEnabled
      /\ ~SecretConfigured \/ ~WellFormed(call[p].token) ) =>
      /\ ~call[p].result
      /\ call[p].ops = <<>> /\ call[p].remote = "none"
      /\ pc[p] \in {"v_ret", "idle"}

C10_Witness ==
  \E p \in Procs :
    /\ call[p].st = "done" /\ call[p].token = SEmpty /\ ~call[p].result
    /\ SecretConfigured /\ env.TURNSTILE_BYPASS_TOKEN = TokC
    /\ env.NODE_ENV = SDevelop
    /\ \E k \in Keys : store[k] # NoEntry

\* C11 as stated: in every configuration, enabled or disabled, a call with
\* an empty-string or non-string token resolves false.
C11_MalformedAlwaysInvalid ==
  \A p \in Procs :
    (call[p].st = "done" /\ ~WellFormed(call[p].token)) => ~call[p].result

\* C11 amended: a call with an empty-string or non-string token resolves
\* false exactly when the subsystem is enabled, whatever the secret, the
\* bypass configuration, the environment and the cache contents; when the
\* subsystem is disabled it resolves true.
C11_MalformedInvalidWhenEnabled ==
  \A p \in Procs :
    (call[p].st = "done" /\ ~WellFormed(call[p].token)) =>
      /\ call[p].result = ~SubsystemEnabled
      /\ call[p].ops = <<>>

C11_Witness ==
  \E p \in Procs :
    /\ call[p].st = "done" /\ call[p].token = Num("1") /\ ~call[p].result
    /\ SubsystemEnabled /\ SecretConfigured
    /\ env.NODE_ENV = SProduction
    /\ \E k \in Keys : store[k] # NoEntry

FromCacheOrRemote(c) ==
  \/ HasOp(c, "del", TRUE) /\ ~Issued(c, "fetch") /\ c.result = (c.cached = STrue)
  \/ Issued(c, "fetch") /\ c.result = (c.remote = "success_true")

BypassConfigured == WellFormed(env.TURNSTILE_BYPASS_TOKEN)

\* C12 as stated: in production with the subsystem enabled the verdict for
\* the configured bypass token comes only from the cache or the remote API;
\* outside production an enabled subsystem with a non-empty bypass token
\* resolves true for that token without store or remote access.
C12_BypassAsStated ==
  \A p \in Procs :
    LET c == call[p]
    IN (c.st = "done" /\ SubsystemEnabled /\ BypassConfigured
          /\ c.token = env.TURNSTILE_BYPASS_TOKEN) =>
         IF env.NODE_ENV = SProduction
         THEN FromCacheOrRemote(c)
         ELSE c.result /\ c.ops = <<>> /\ c.remote = "none"

\* C12 amended: with the subsystem enabled and a secret configured, in
\* production a token equal to the configured bypass token gets its verdict
\* only from the cache or the remote API; outside production the configured
\* non-empty bypass token resolves true without store or remote access, and
\* every other well-formed token gets its verdict from the cache or the
\* remote API.
C12_BypassOnlyOutsideProduction ==
  \A p \in Procs :
    LET c == call[p]
    IN (c.st = "done" /\ SubsystemEnabled /\ SecretConfigured /\ WellFormed(c.token)) =>
         IF /\ env.NODE_ENV # SProduction /\ BypassConfigured
            /\ c.token = env.TURNSTILE_BYPASS_TOKEN
         THEN c.result /\ c.ops = <<>> /\ c.remote = "none"
         ELSE FromCacheOrRemote(c)

C12_Witness ==
  \E p \in Procs :
    /\ call[p].st = "done" /\ call[p].token = TokC
    /\ env.TURNSTILE_BYPASS_TOKEN = TokC /\ env.NODE_ENV = SProduction
    /\ SubsystemEnabled /\ SecretConfigured
    /\ call[p].remote = "success_false" /\ ~call[p].result

\* C13: with the subsystem enabled, a secret configured and no bypass token
\* configured, verifyTurnstileToken("DEVELOPMENT_MODE_BYPASS") resolves true
\* and makes no remote API call.
C13_DevelopmentLiteral ==
  \A p \in Procs :
    ( /\ call[p].st = "done" /\ call[p].token = DevBypass
      /\ SubsystemEnabled /\ SecretConfigured
      /\ env.TURNSTILE_BYPASS_TOKEN = Undefined ) =>
      call[p].result /\ ~Issued(call[p], "fetch")

\* C14: with the subsystem enabled and a valid token, a call whose store
\* read fails goes on to the remote API as after a miss, without a delete,
\* and returns the remote verdict.
C14_ReadFailureIsMiss ==
  \A p \in Procs :
    LET c == call[p]
    IN HasOp(c, "get", FALSE) =>
         /\ SubsystemEnabled /\ WellFormed(c.token)
         /\ c.ops[1].op = "get" /\ ~Issued(c, "del")
         /\ pc[p] \in {"v_fetch", "v_json", "v_set", "v_ret", "idle"}
         /\ pc[p] \in {"v_json", "v_set", "v_ret", "idle"} =>
              Len(c.ops) >= 2 /\ c.ops[2].op = "fetch"
         /\ c.st = "done" => c.result = (c.remote = "success_true")

C14_Witness ==
  \E p \in Procs :
    /\ call[p].st = "done" /\ HasOp(call[p], "get", FALSE)
    /\ call[p].pre /\ call[p].result /\ call[p].remote = "success_true"

\* C15: when the remote API accepts the token and the store write that
\* follows fails, the call still resolves true; the failed write leaves the
\* store as it was, so after a miss no entry exists for the key.
C15_WriteFailed ==
  \A p \in Procs :
    LET c == call[p]
    IN HasOp(c, "setex", FALSE) =>
         /\ c.remote = "success_true" /\ c.result
         /\ pc[p] \in {"v_ret", "idle"}
         /\ (c.ops[1] = Op("get", c.key, TRUE, Null, 0) /\ ~c.stale) =>
              store[c.key] = NoEntry

C15_WriteStep ==
  \A p \in Procs :
    (pc[p] = "v_set" /\ HasOp(call'[p], "setex", FALSE)) =>
      store' = store /\ call'[p].result

C15_WriteFailureKeepsVerdict == []C15_WriteFailed /\ [][C15_WriteStep]_vars

C15_Witness ==
  \E p \in Procs :
    /\ call[p].st = "done" /\ HasOp(call[p], "setex", FALSE)
    /\ call[p].ops[1] = Op("get", call[p].key, TRUE, Null, 0)
    /\ call[p].result /\ store[call[p].key] = NoEntry

C16_TrueOnlyWhen ==
  \A p \in Procs :
    LET c == call[p]
    IN (c.st = "done" /\ c.result) =>
         \/ ~SubsystemEnabled
         \/ /\ SecretConfigured /\ BypassConfigured /\ BypassInEffect(c.token)
            /\ c.ops = <<>>
         \/ HasOp(c, "del", TRUE) /\ c.cached = STrue
         \/ c.remote = "success_true"

\* C16: for every input, configuration, store behaviour and remote
\* behaviour a call of verifyTurnstileToken ends with a boolean verdict, and
\* the verdict is true only on the disabled path, the bypass path, a cache
\* hit holding "true" or a remote answer with success true.
C16_FailClosedTotal ==
  /\ [](C16_TrueOnlyWhen /\ \A p \in Procs : call[p].result \in BOOLEAN)
  /\ \A p \in Procs : (call[p].st = "run") ~> (call[p].st = "done")

C16_Witness ==
  \E p \in Procs :
    /\ call[p].st = "done" /\ ~call[p].result
    /\ HasOp(call[p], "get", FALSE) /\ call[p].remote = "network_error"

C17_ReadLeavesEntry ==
  \A p \in Workers :
    (pc[p] = "v_get" /\ pc'[p] = "v_del") =>
      store' = store /\ store[call[p].key] # NoEntry

C17_VerdictIgnoresDelete ==
  \A p \in Workers :
    (pc[p] = "v_del" /\ pc'[p] = "v_ret") =>
      /\ call'[p].result = (call[p].cached = STrue)
      /\ ~Issued(call'[p], "fetch")
      /\ store'[call[p].key] = NoEntry

\* C17: the read and the delete of an entry are two store calls: a read that
\* finds an entry leaves it in the store, and a call whose delete does not
\* fail returns the value it read without a remote call, whether or not
\* another call has removed the entry in between; so two concurrent calls
\* for one token and IP can both resolve true from one entry.
C17_ConsumptionRace ==
  [][C17_ReadLeavesEntry /\ C17_VerdictIgnoresDelete]_vars

\* one remote verification, then two calls that both took the verdict from
\* the entry it wrote
C17_Witness ==
  /\ Len(log) = 3
  /\ ~log[1].pre /\ log[1].remote = "accept" /\ log[1].storeOK
  /\ \A i \in 2..3 : log[i].hit /\ log[i].fetches = 0 /\ log[i].result
  /\ \A p \in Workers :
       /\ call[p].st = "done" /\ pc[p] = "idle"
       /\ call[p].ops = <<Op("get", call[p].key, TRUE, STrue, 0),
                          Op("del", call[p].key, TRUE, Null, 0)>>
  /\ call[1].key = call[2].key

(***************************************************************************)
(* Properties of the Cache Service                                         *)
(***************************************************************************)
Prefixed(ks) == [j \in 1..Len(ks) |-> cache.prefix \o ks[j]]
Range(q) == {q[j] : j \in 1..Len(q)}

\* C18: every key or pattern the service passes to the store is its prefix
\* followed by the caller's key or pattern, for get, set, delete,
\* deleteByPattern, mget and mset, and never the bare key; the keys of a DEL
\* of deleteByPattern are exactly the keys the SCAN before it returned.
C18_PrefixingTotal ==
  \A c \in Callers :
    \A i \in 1..Len(cop[c].calls) :
      LET o == cop[c]
          sc == o.calls[i]
      IN /\ sc.cmd \in {"GET", "SET", "DEL", "SCAN", "MGET", "EXEC"}
         /\ sc.cmd # "SCAN" => \A fk \in Range(sc.keys) : fk \notin CacheKeys
         /\ sc.cmd = "GET" => o.name = "get" /\ sc.keys = Prefixed(<<o.key>>)
         /\ sc.cmd = "SET" =>
              \/ o.name = "set" /\ sc.keys = Prefixed(<<o.key>>)
              \/ o.name = "mset" /\ sc.keys = Prefixed(<<o.keys[i]>>)
         /\ sc.cmd = "MGET" => o.name = "mget" /\ sc.keys = Prefixed(o.keys)
         /\ sc.cmd = "EXEC" => o.name = "mset" /\ sc.keys = <<>> /\ i = Len(o.keys) + 1
         /\ sc.cmd = "SCAN" =>
              /\ o.name = "deleteByPattern" /\ sc.keys = Prefixed(<<o.key>>)
              /\ o.key \in CachePatterns /\ sc.keys[1] \notin CachePatterns
         /\ sc.cmd = "DEL" =>
              \/ o.name = "delete" /\ sc.keys = Prefixed(<<o.key>>)
              \/ /\ o.name = "deleteByPattern" /\ i > 1
                 /\ o.calls[i - 1].cmd = "SCAN"
                 /\ Range(sc.keys) = o.calls[i - 1].out
                 /\ Len(sc.keys) = Cardinality(o.calls[i - 1].out)
                 /\ sc.keys # <<>>

C18_Witness ==
  \E c \in Callers :
    /\ cop[c].name = "deleteByPattern" /\ cop[c].st = "done" /\ ~cop[c].err
    /\ cache.prefix = <<"s", ":">> /\ cop[c].key = <<"*">>
    /\ cop[c].count = 2 /\ Len(cop[c].calls) = 4
    /\ redis[RateKey].has

\* a step of an operation of caller c: its record changes in more than the
\* keys the store's iteration owes it
Acts(c) == [cop'[c] EXCEPT !.due = {}] # [cop[c] EXCEPT !.due = {}]

\* the step in which the get of caller c is resumed by the store's answer
GetStep(c) == Awaits(c, "get") /\ cop'[c].st = "done"
ReadValue(c) == redisRead(redis, cache.prefix \o cop[c].key)

C19_GetCounts ==
  \A c \in Callers :
    (GetStep(c) /\ ~cop'[c].err) =>
      /\ cache'.prefix = cache.prefix /\ redis' = redis
      /\ IF ReadValue(c) = Null
         THEN /\ cop'[c].ret = Null
              /\ cache'.misses = cache.misses + 1 /\ cache'.hits = cache.hits
         ELSE /\ cache'.hits = cache.hits + 1 /\ cache'.misses = cache.misses
              /\ JsonParse(ReadValue(c).v).ok => cop'[c].ret = JsonParse(ReadValue(c).v).val

\* C19: a get whose store read returns null returns null and adds 1 to
\* misses and nothing to hits; a get whose store read returns valid JSON
\* returns the parsed value and adds 1 to hits and nothing to misses.
C19_GetAndCounters == [][C19_GetCounts]_vars

C19_Witness ==
  \E c \in Callers :
    /\ cop[c].name = "get" /\ cop[c].st = "done" /\ ~cop[c].err
    /\ cop[c].ret = JArr(<<Num("1"), Str(<<"a">>)>>)
    /\ cache.hits = 1 /\ cache.misses = 1

\* a value JSON has a text for: a string, a boolean, null, a finite number,
\* an array or an object of such values
RECURSIVE JsonSerializable(_)
JsonSerializable(x) ==
  CASE x.t = "string" -> TRUE
    [] x.t = "boolean" -> TRUE
    [] x.t = "number" -> x.v \notin {<<"NaN">>, <<"Infinity">>, <<"-", "Infinity">>}
    [] x.t = "array" -> \A i \in 1..Len(x.v) : JsonSerializable(x.v[i])
    [] x.t = "dict" -> \A i \in 1..Len(x.v) : JsonSerializable(x.v[i][2])
    [] OTHER -> x = Null

\* the value x with 0 in the place of every negative zero
RECURSIVE PlusZero(_)
PlusZero(x) ==
  CASE x.t = "number" -> IF x.v = <<"-", "0">> THEN Num("0") ELSE x
    [] x.t = "array" -> JArr([i \in 1..Len(x.v) |-> PlusZero(x.v[i])])
    [] x.t = "dict" -> JObj([i \in 1..Len(x.v) |-> <<x.v[i][1], PlusZero(x.v[i][2])>>])
    [] OTHER -> x

\* the get of caller c ends, reading an entry whose latest write was a set
\* of a JSON-serializable value
ReadsBack(c) ==
  /\ GetStep(c) /\ ~cop'[c].err
  /\ redis[cache.prefix \o cop[c].key].has
  /\ redis[cache.prefix \o cop[c].key].src # Undefined
  /\ JsonSerializable(redis[cache.prefix \o cop[c].key].src)

\* C20 as stated: a get of a key whose latest write was set(k, v), with or
\* without a TTL argument, returns a value equal to v, for every
\* JSON-serializable v.
C20_ReadsEveryValueBack ==
  [][\A c \in Callers :
       ReadsBack(c) => cop'[c].ret = redis[cache.prefix \o cop[c].key].src]_vars

C20_ReadBack ==
  \A c \in Callers :
    LET e == redis[cache.prefix \o cop[c].key]
    IN ReadsBack(c) =>
         /\ cop'[c].ret = PlusZero(e.src)
         /\ e.src \in TripValues \cup OpValues
         /\ e.ex \in {0, 60}

\* C20: a get of a key whose latest write was set(k, v), with or without a
\* TTL argument, returns v with 0 in the place of every negative zero, for
\* every JSON-serializable v: a string, a finite number, a boolean, null, an
\* array or an object of such values.  The value returned equals v when v
\* holds no negative zero.
C20_RoundTrip == [][C20_ReadBack]_vars

C20_Witness ==
  \E c \in Callers :
    /\ cop[c].name = "get" /\ cop[c].st = "done" /\ ~cop[c].err
    /\ redis[cache.prefix \o cop[c].key].src =
         JArr(<<NumD(<<"-", "0">>),
                NumD(<<"0", ".", "3", "0", "0", "0", "0", "0", "0", "0", "0", "0", "0", "0",
                       "0", "0", "0", "0", "4">>)>>)
    /\ cop[c].ret = PlusZero(redis[cache.prefix \o cop[c].key].src)
    /\ cop[c].ret # redis[cache.prefix \o cop[c].key].src
    /\ redis[cache.prefix \o cop[c].key].ex = 60

\* the SCAN calls of an operation, and the finished, successful run of
\* deleteByPattern of caller c
ScanCalls(o) == {i \in 1..Len(o.calls) : o.calls[i].cmd = "SCAN"}
Swept(c) == cop[c].name = "deleteByPattern" /\ cop[c].st = "done" /\ ~cop[c].err
CeilDiv(n, d) == (n + d - 1) \div d

\* C21 as stated: when N store keys match the prefixed pattern,
\* deleteByPattern returns exactly N and issues at most ceil(N/100) SCAN
\* calls.
C21_CountAndScanBound ==
  \A c \in Callers :
    Swept(c) =>
      /\ cop[c].count = Cardinality(cop[c].matched)
      /\ Cardinality(ScanCalls(cop[c])) <= CeilDiv(Cardinality(cop[c].matched), ScanCount)

\* C21 amended: when N store keys match the prefixed pattern and nothing
\* else changes the store while the operation runs, deleteByPattern returns
\* exactly N; it issues a first SCAN with cursor "0" and one more SCAN for
\* every non-zero cursor the store hands back, so at least one SCAN even
\* when N = 0, and one DEL for every non-empty batch of keys a SCAN
\* returned; the batches together are the N matching keys.
C21_CountAndScans ==
  \A c \in Callers :
    Swept(c) =>
      LET cs == cop[c].calls IN
      /\ cop[c].count = Cardinality(cop[c].matched)
      /\ cs # <<>>
      /\ cs[1].cmd = "SCAN" /\ cs[1].cursor = <<"0">>
      /\ \A i \in ScanCalls(cop[c]) :
           /\ cs[i].keys = <<cache.prefix \o cop[c].key>>
           /\ i > 1 => cs[i].cursor # <<"0">>
           /\ cs[i].out # {} =>
                /\ i < Len(cs) /\ cs[i + 1].cmd = "DEL"
                /\ Range(cs[i + 1].keys) = cs[i].out
           /\ (cs[i].out = {} /\ i < Len(cs)) => cs[i + 1].cmd = "SCAN"
      /\ UNION {cs[i].out : i \in ScanCalls(cop[c])} = cop[c].matched

C21_Witness ==
  \E c \in Callers :
    /\ Swept(c)
    /\ cop[c].count = 2 /\ Cardinality(ScanCalls(cop[c])) = 2
    /\ \A i \in ScanCalls(cop[c]) : cop[c].calls[i].out # {}

\* the step in which caller c calls getHitRate, and what a returned rate
\* always satisfies
HitRateStep(c) == cop[c].st # "run" /\ cop'[c].name = "getHitRate" /\ Acts(c)

C22_State ==
  \A c \in Callers :
    cop[c].name = "getHitRate" =>
      /\ cop[c].rate.d # 0
      /\ 0 <= cop[c].rate.n /\ cop[c].rate.n <= cop[c].rate.d

C22_Step ==
  \A c \in Callers :
    HitRateStep(c) =>
      LET total == cache.hits + cache.misses IN
      /\ cache' = cache
      /\ total = 0 => cop'[c].rate.n = 0 /\ cop'[c].rate.d # 0
      /\ total # 0 => cop'[c].rate.n * total = cache.hits * cop'[c].rate.d

\* C22: getHitRate() returns 0 when hits + misses = 0 (on a new instance and
\* right after resetMetrics), otherwise hits / (hits + misses); after any
\* sequence of operations the value lies between 0 and 1 and is never NaN.
C22_HitRate == []C22_State /\ [][C22_Step]_vars

C22_Witness ==
  \E c \in Callers :
    /\ cop[c].name = "getHitRate"
    /\ cache.hits = 1 /\ cache.misses = 1
    /\ cop[c].rate.n = 1 /\ cop[c].rate.d = 2

\* the steps of the caller's assignment and of resetMetrics and getMetrics
MutateStep(c) ==
  /\ cop[c].name = "getMetrics" /\ cop'[c].name = "getMetrics"
  /\ cop'[c].snap # cop[c].snap
ResetStep(c) ==
  /\ cop[c].st # "run" /\ cop'[c].name = "resetMetrics"
  /\ Acts(c) \/ ((\A d \in Callers : ~Acts(d)) /\ cache' # cache)
MetricsStep(c) == cop'[c].name = "getMetrics" /\ cop[c].name # "getMetrics"

\* C26: mutating an object returned by getMetrics() never changes the result
\* of any later getMetrics() or getHitRate(): the assignment leaves the
\* counters of the instance as they were, and getMetrics() returns them;
\* resetMetrics() sets hits and misses both to 0 and changes nothing in the
\* store.
C26_Step ==
  \A c \in Callers :
    /\ MutateStep(c) => cache' = cache /\ redis' = redis
    /\ MetricsStep(c) =>
         /\ cop'[c].snap.hits = cache.hits /\ cop'[c].snap.misses = cache.misses
         /\ cache' = cache /\ redis' = redis
    /\ ResetStep(c) =>
         /\ cache'.hits = 0 /\ cache'.misses = 0 /\ cache'.prefix = cache.prefix
         /\ redis' = redis /\ cop'[c].calls = <<>>

C26_MetricsByValue == [][C26_Step]_vars

C26_Witness ==
  \E c \in Callers :
    /\ cop[c].name = "getMetrics"
    /\ cop[c].snap.hits = 9 /\ cop[c].snap.misses = 0
    /\ cache.hits = 1 /\ cache.misses = 1
    /\ \E fk \in StoreKeys : redis[fk].has

\* the step in which an operation of caller c that calls the store ends,
\* and an operation one of whose store calls failed
Operations == {"get", "set", "delete", "deleteByPattern", "mget", "mset"}
OpEnds(c) == Acts(c) /\ cop'[c].st = "done" /\ cop'[c].name \in Operations
FailedCall(o) == \E i \in 1..Len(o.calls) : Failed(o.calls[i])

\* C23: for each of get, set, delete, deleteByPattern, mget and mset, if a
\* store call made by the operation fails, the operation rejects with that
\* same error (it never returns null, a partial result or success instead),
\* and hits and misses are left unchanged by the failed operation.
C23_Step ==
  \A c \in Callers :
    (OpEnds(c) /\ FailedCall(cop'[c])) =>
      /\ cop'[c].err /\ cop'[c].thrown = "store"
      /\ cop'[c].ret = Undefined
      /\ cache'.hits = cache.hits /\ cache'.misses = cache.misses

C23_StoreErrorsPropagate == [][C23_Step]_vars

\* a TTL argument that is defined and greater than 0
TtlPositive(t) == t # Undefined /\ NumberValue(t) > 0

\* C24: set, and each entry of mset independently, issues a store SET with
\* expiry EX ttl exactly when the TTL is defined and greater than 0; when the
\* TTL is undefined, 0 or negative it issues a plain SET with no expiry and
\* reports no error.
C24_TtlRule ==
  \A c \in Callers :
    LET o == cop[c] IN
    o.name \in {"set", "mset"} =>
      /\ o.name = "set" => Len(o.calls) = 1 /\ Len(o.ttls) = 1
      /\ (o.name = "mset" /\ o.ttls # <<>>) => Len(o.calls) = Len(o.ttls) + 1
      /\ \A i \in 1..Len(o.ttls) :
           /\ o.calls[i].cmd = "SET"
           /\ TtlPositive(o.ttls[i]) => o.calls[i].ex = NumberValue(o.ttls[i])
           /\ ~TtlPositive(o.ttls[i]) => o.calls[i].ex = 0
      /\ (o.st = "done" /\ \A i \in 1..Len(o.calls) : Ok(o.calls[i])) => ~o.err

C24_Witness ==
  \E c \in Callers :
    /\ cop[c].name = "mset" /\ cop[c].st = "done" /\ ~cop[c].err
    /\ cop[c].ttls = <<NumD(<<"-", "1">>), NumD(<<"6", "0">>)>>
    /\ cop[c].calls[1].ex = 0 /\ cop[c].calls[2].ex = 60
    /\ redis[cache.prefix \o <<"a">>].has /\ redis[cache.prefix \o <<"a">>].ex = 0
    /\ redis[cache.prefix \o <<"b">>].ex = 60

\* the step in which an mget of caller c ends: at once for an empty list,
\* with the store's answer otherwise
MgetStep(c) ==
  /\ cop'[c].name = "mget" /\ cop'[c].st = "done" /\ Acts(c)
  /\ cop'[c].keys # <<>> => Awaits(c, "mget")

\* C25: with an empty key list mget returns an empty list, makes no store
\* call and leaves the counters unchanged; otherwise it issues exactly one
\* bulk GET for the prefixed keys in input order, returns a list of the same
\* length where element i is null when store value i is null and otherwise
\* the parsed value (or the raw string when parsing fails), and increases
\* hits by the number of non-null values and misses by the number of null
\* values.
C25_Step ==
  \A c \in Callers :
    MgetStep(c) =>
      LET o == cop'[c]
          ks == o.keys
          fullKeys == [i \in 1..Len(ks) |-> cache.prefix \o ks[i]]
          present == {i \in 1..Len(ks) : redis[fullKeys[i]].has}
      IN /\ ks = <<>> =>
              /\ o.ret = JArr(<<>>) /\ ~o.err
              /\ o.calls = <<>> /\ cache' = cache
         /\ ks # <<>> =>
              /\ Len(o.calls) = 1
              /\ o.calls[1].cmd = "MGET" /\ o.calls[1].keys = fullKeys
         /\ (ks # <<>> /\ ~o.err) =>
              /\ o.ret.t = "array" /\ Len(o.ret.v) = Len(ks)
              /\ \A i \in 1..Len(ks) :
                   o.ret.v[i] =
                     IF i \notin present THEN Null
                     ELSE IF JsonParse(redis[fullKeys[i]].text).ok
                          THEN JsonParse(redis[fullKeys[i]].text).val
                          ELSE Str(redis[fullKeys[i]].text)
              /\ cache'.hits = cache.hits + Cardinality(present)
              /\ cache'.misses = cache.misses + Len(ks) - Cardinality(present)
         /\ redis' = redis

C25_BulkGet == [][C25_Step]_vars

C25_Witness ==
  \E c \in Callers :
    /\ cop[c].name = "mget" /\ cop[c].st = "done" /\ ~cop[c].err
    /\ cop[c].keys = << <<"b">>, <<"a">> >>
    /\ cop[c].ret = JArr(<<Num("7"), Str(<<"h", "i">>)>>)
    /\ cache.hits = 2 /\ cache.misses = 0

\* C27: for every Cache Service operation, the value returned, the error
\* raised, the store calls issued and the hits/misses counters are the same
\* whether the span and counter calls succeed or throw: what get and set
\* return or raise is decided by the reply of the store alone.
C27_Step ==
  \A c \in Callers :
    (OpEnds(c) /\ cop'[c].name \in {"get", "set"}) =>
      /\ Len(cop'[c].calls) = 1
      /\ cop'[c].err = Failed(cop'[c].calls[1])
      /\ cop'[c].thrown = IF Ok(cop'[c].calls[1]) THEN "none" ELSE "store"
      /\ (cop'[c].name = "get" /\ Ok(cop'[c].calls[1])) =>
           cop'[c].ret = IF redis[cache.prefix \o cop'[c].key].has
                         THEN Decode(Str(redis[cache.prefix \o cop'[c].key].text))
                         ELSE Null

C27_InstrumentationAuxiliary == [][C27_Step]_vars

(***************************************************************************)
(* Properties of the cleanup handlers                                      *)
(***************************************************************************)
\* the listeners of a signal that the module installed
Installed(g, s) == {i \in 1..Len(g.listeners[s]) : g.listeners[s][i].by = "module"}

C28_State ==
  /\ \A s \in Signals : Cardinality(Installed(sig, s)) <= 1
  /\ sig.registered <=> \A s \in Signals : Cardinality(Installed(sig, s)) = 1
  /\ ~sig.registered <=> \A s \in Signals : Installed(sig, s) = {}
  /\ sig.last = "areCleanupHandlersRegistered" => sig.ret = sig.registered

\* a step that is a call of the module, not a listener added by other code
Called(name) ==
  /\ sig'.last = name /\ sig' # sig
  /\ ~\E s \in Signals : sig' = [sig EXCEPT !.listeners[s] = Append(@, OtherListener)]

C28_Step ==
  /\ (Called("registerCleanupHandlers") /\ sig.registered) =>
       sig'.listeners = sig.listeners /\ sig'.registered
  /\ (Called("unregisterCleanupHandlers") /\ ~sig.registered) =>
       /\ sig'.listeners = sig.listeners /\ ~sig'.registered
       /\ sig'.sigintHandler = sig.sigintHandler
       /\ sig'.sigtermHandler = sig.sigtermHandler

\* C28: after any sequence of registerCleanupHandlers() and
\* unregisterCleanupHandlers() calls, at most one SIGINT listener and at most
\* one SIGTERM listener installed by the module exist,
\* areCleanupHandlersRegistered() is true exactly when they are installed, a
\* repeated register call installs nothing, and an unregister call when
\* nothing is registered changes nothing.
C28_RegistrationIdempotent == []C28_State /\ [][C28_Step]_vars

C28_Witness ==
  /\ sig.last = "registerCleanupHandlers" /\ sig.early
  /\ sig.made = 4
  /\ sig.listeners["SIGINT"] = <<OtherListener, Handler(3)>>
  /\ sig.listeners["SIGTERM"] = <<Handler(4)>>

(***************************************************************************)
(* Properties of the Verifier's cache key                                  *)
(***************************************************************************)
\* C29: with the subsystem enabled and no bypass in effect,
\* verifyTurnstileToken(t, ip) resolves true only if the remote API accepted
\* that same token t, in this call or in an earlier call for the same ip; in
\* particular a token that shares its first 32 characters with an accepted
\* and cached token never resolves true without being accepted itself.  The
\* remote API here accepts no token but the genuine one, so no call with the
\* other token may resolve true.
C29_VerdictTiedToToken ==
  \A p \in Procs :
    ( /\ call[p].st = "done"
      /\ SubsystemEnabled /\ ~BypassInEffect(call[p].token)
      /\ call[p].token # Genuine )
    => ~call[p].result

\* the first n characters of a string
FirstChars(cs, n) == [i \in 1..(IF Len(cs) < n THEN Len(cs) ELSE n) |-> cs[i]]

\* C30: within a single verifyTurnstileToken call the store key that is read
\* in the pre-check, deleted on a hit, and written after a successful remote
\* verification is the same key, equal to "turnstile:" + sha256(first 32
\* characters of the token) + ":" + client IP, where an absent or empty
\* remoteip is replaced by "unknown"; the write always uses TTL 600 and
\* value "true".
C30_OneKey ==
  \A p \in Procs :
    LET c == call[p]
        expected ==
          [ns |-> "turnstile:",
           hash |-> Sha256(FirstChars(c.token.v, 32)),
           ip |-> IF c.ip = Undefined \/ c.ip = Str(<<>>) THEN <<"unknown">> ELSE c.ip.v]
    IN \A i \in 1..Len(c.ops) :
         /\ c.ops[i].op \in StoreOps => c.ops[i].key = expected
         /\ c.ops[i].op = "setex" =>
              c.ops[i].ttl = 600 /\ c.ops[i].val = Str(<<"t", "r", "u", "e">>)
         /\ c.ops[i].op = "del" =>
              i = 2 /\ c.ops[1].op = "get" /\ c.ops[1].val # Null

C30_Witness ==
  \E p \in Procs :
    /\ call[p].st = "done" /\ call[p].token = TokB /\ call[p].ip = SEmpty
    /\ Len(call[p].ops) = 3
    /\ call[p].ops[1].op = "get" /\ call[p].ops[3].op = "setex"
    /\ call[p].ops[3].key.ip = <<"unknown">>
    /\ call[p].ops[3].key.hash = <<"sha256">> \o Rep(32, "a")

(***************************************************************************)
(* Further properties of the Verifier                                      *)
(***************************************************************************)
\* the step in which a delete of handler p fails, and the steps that take
\* an entry out of the store
DelFails(p) ==
  /\ Len(call'[p].ops) = Len(call[p].ops) + 1
  /\ call'[p].ops[Len(call'[p].ops)].op = "del"
  /\ ~call'[p].ops[Len(call'[p].ops)].ok
Consumed(k) ==
  \E p \in Workers :
    /\ Len(call'[p].ops) = Len(call[p].ops) + 1
    /\ call'[p].ops[Len(call'[p].ops)] = Op("del", k, TRUE, Null, 0)
Expired(k) == pc' = pc /\ gate' = gate /\ store[k].ttl > 0

C31_State ==
  \A p \in Procs :
    (ReadEntry(call[p]) /\ HasOp(call[p], "del", FALSE)) =>
      /\ pc[p] \notin {"v_ret", "idle"} => ~call[p].result
      /\ pc[p] \in {"v_ret", "idle"} =>
           /\ Len(call[p].ops) >= 3 /\ call[p].ops[3].op = "fetch"
           /\ call[p].result = (call[p].remote = "success_true")

C31_Step ==
  /\ \A p \in Procs : DelFails(p) => store' = store
  /\ \A k \in Keys :
       (store[k] # NoEntry /\ store'[k] = NoEntry) => Consumed(k) \/ Expired(k)

\* C31: if the pre-check read finds an entry but the following store delete
\* fails, verifyTurnstileToken does not return the cached verdict; it
\* continues to the remote API and returns the remote verdict, and the entry
\* it failed to delete stays in the store until it is overwritten, consumed
\* by a later call, or expires.
C31_FailedDeleteGrantsNothing == []C31_State /\ [][C31_Step]_vars

C31_Witness ==
  \E p \in Procs :
    /\ call[p].st = "done"
    /\ ReadEntry(call[p]) /\ HasOp(call[p], "del", FALSE)
    /\ call[p].remote = "success_false" /\ ~call[p].result
    /\ store[call[p].key] # NoEntry

(***************************************************************************)
(* Further properties of the Cache Service                                 *)
(***************************************************************************)
\* the sum of the batch sizes the SCAN calls of a call list returned
RECURSIVE BatchSum(_)
BatchSum(calls) ==
  IF calls = <<>> THEN 0
  ELSE Cardinality(Head(calls).out) + BatchSum(Tail(calls))

LastScan(o) == CHOOSE i \in ScanCalls(o) : \A j \in ScanCalls(o) : j <= i

C32_State ==
  \A c \in Callers :
    (cop[c].name = "deleteByPattern" /\ cop[c].calls # <<>>) =>
      LET o == cop[c]
          cs == o.calls
          n == Len(cs)
      IN /\ cs[1].cmd = "SCAN" /\ cs[1].cursor = <<"0">>
         /\ \A i \in 1..n :
              /\ cs[i].cmd \in {"SCAN", "DEL"}
              /\ cs[i].cmd = "SCAN" =>
                   /\ cs[i].keys = <<cache.prefix \o o.key>> /\ cs[i].count = 100
                   /\ (Ok(cs[i]) /\ cs[i].out # {}) =>
                        /\ i < n
                        /\ cs[i + 1].cmd = "DEL" /\ Range(cs[i + 1].keys) = cs[i].out
                        /\ Len(cs[i + 1].keys) = Cardinality(cs[i].out)
                        /\ i + 1 < n =>
                             cs[i + 2].cmd = "SCAN" /\ cs[i + 2].cursor = cs[i].next
                   /\ (Ok(cs[i]) /\ cs[i].out = {} /\ cs[i].next # <<"0">>) =>
                        i < n /\ cs[i + 1].cmd = "SCAN" /\ cs[i + 1].cursor = cs[i].next
                   /\ (Ok(cs[i]) /\ cs[i].next = <<"0">>) =>
                        \A j \in (i + 1)..n : cs[j].cmd = "DEL"
              /\ cs[i].cmd = "DEL" =>
                   i > 1 /\ cs[i - 1].cmd = "SCAN" /\ cs[i - 1].out # {}
              /\ Failed(cs[i]) => i = n /\ o.err
         /\ (o.st = "done" /\ ~o.err) =>
              /\ cs[LastScan(o)].next = <<"0">>
              /\ o.count = BatchSum(cs)
         /\ (~o.err /\ cs[LastScan(o)].next # <<"0">>) => o.st = "run"

\* C32: deleteByPattern starts at cursor "0", passes to each SCAN (MATCH
\* prefixed pattern, COUNT 100) the cursor returned by the previous SCAN,
\* issues one DEL with all keys of a batch for each non-empty batch and no DEL
\* for an empty batch, stops exactly when a SCAN returns cursor "0", and
\* returns the sum of the batch sizes; it terminates if and only if the store
\* eventually returns cursor "0": it is still running as long as no SCAN has
\* returned "0", and once the store returns "0" the operation ends.
C32_ScanLoop ==
  /\ []C32_State
  /\ \A c \in Callers : Awaits(c, "deleteByPattern") ~> (cop[c].st = "done")

C32_Witness ==
  \E c \in Callers :
    LET cs == cop[c].calls IN
    /\ Swept(c)
    /\ Len(cs) = 3
    /\ cs[1].out = {} /\ cs[1].next # <<"0">>
    /\ cs[2].cursor = cs[1].next /\ cs[2].next = <<"0">>
    /\ Cardinality(cs[2].out) = 2 /\ cop[c].count = 2

\* the keys the successful DEL calls of an operation removed
Removed(o) ==
  UNION {Range(o.calls[i].keys) : i \in {j \in 1..Len(o.calls) :
                                           o.calls[j].cmd = "DEL" /\ Ok(o.calls[j])}}

\* the step in which a store call of the running deleteByPattern of caller
\* c fails
SweepFails(c) ==
  /\ Awaits(c, "deleteByPattern")
  /\ cop'[c].st = "done"
  /\ Failed(cop'[c].calls[Len(cop'[c].calls)])

C33_Step ==
  \A c \in Callers :
    (SweepFails(c) /\ Removed(cop[c]) # {}) =>
      /\ cop'[c].st = "done" /\ cop'[c].err /\ cop'[c].thrown = "store"
      /\ cop'[c].ret = Undefined
      /\ redis' = redis
      /\ \A fk \in Removed(cop[c]) : ~redis'[fk].has

\* C33: if a SCAN or DEL fails after at least one batch was already deleted,
\* deleteByPattern rejects with the store error and returns no count, and
\* the keys deleted by the earlier batches remain deleted.
C33_NotAllOrNothing == [][C33_Step]_vars

C33_Witness ==
  \E c \in Callers :
    /\ cop[c].name = "deleteByPattern" /\ cop[c].st = "done" /\ cop[c].err
    /\ Cardinality(Removed(cop[c])) = 1
    /\ cop[c].calls[Len(cop[c].calls)].cmd = "DEL"
    /\ \A fk \in Removed(cop[c]) : ~redis[fk].has
    /\ \E fk \in cop[c].matched : redis[fk].has

\* the string the store holds under a key does not parse as JSON
Malformed(fk) == redis[fk].has /\ ~JsonParse(redis[fk].text).ok

C34_Step ==
  \A c \in Callers :
    /\ (GetStep(c) /\ Ok(cop'[c].calls[1]) /\ Malformed(cache.prefix \o cop[c].key)) =>
         /\ ~cop'[c].err
         /\ cop'[c].ret = Str(redis[cache.prefix \o cop[c].key].text)
         /\ cache'.hits = cache.hits + 1 /\ cache'.misses = cache.misses
    /\ (MgetStep(c) /\ cop'[c].keys # <<>> /\ Ok(cop'[c].calls[1])) =>
         /\ ~cop'[c].err
         /\ \A i \in 1..Len(cop'[c].keys) :
              Malformed(cache.prefix \o cop'[c].keys[i]) =>
                cop'[c].ret.v[i] = Str(redis[cache.prefix \o cop'[c].keys[i]].text)
         /\ cache'.hits - cache.hits >=
              Cardinality({i \in 1..Len(cop'[c].keys) :
                             Malformed(cache.prefix \o cop'[c].keys[i])})

\* C34: when the store returns a non-null string that is not valid JSON, get
\* (and the matching element of mget) returns that raw string unchanged,
\* does not throw, and counts the read as a hit.
C34_MalformedIsRaw == [][C34_Step]_vars

C34_Witness ==
  \E c \in Callers :
    /\ cop[c].name = "mget" /\ cop[c].st = "done" /\ ~cop[c].err
    /\ cop[c].ret = JArr(<<Str(<<"7", "x">>), Str(<<"[", "1", ",">>)>>)
    /\ cache.hits = 2 /\ cache.misses = 0

\* what one step may do to the counters: the step that changes them is the
\* end of a get or mget the store answered, or a resetMetrics
C35_Step ==
  /\ cache' # cache =>
       /\ cache'.prefix = cache.prefix
       /\ \E c \in Callers :
            \/ /\ GetStep(c) \/ MgetStep(c)
               /\ ~cop'[c].err /\ \A i \in 1..Len(cop'[c].calls) : Ok(cop'[c].calls[i])
               /\ cache'.hits >= cache.hits /\ cache'.misses >= cache.misses
            \/ ResetStep(c) /\ cache'.hits = 0 /\ cache'.misses = 0
  /\ \A c \in Callers :
       /\ (Acts(c) /\ cop'[c].name \in {"set", "delete", "deleteByPattern", "mset",
                                                  "getMetrics", "getHitRate"}) =>
            cache' = cache
       /\ (Acts(c) /\ cop'[c].err) => cache' = cache

\* C35: hits and misses are changed only by a successful get or mget and by
\* resetMetrics; set, delete, deleteByPattern, mset, getMetrics, getHitRate
\* and any failed operation leave both unchanged, so between two resets
\* neither counter ever decreases.
C35_CountersFrame == [][C35_Step]_vars

C35_Witness ==
  \E c \in Callers :
    /\ cop[c].name = "mset" /\ cop[c].st = "done" /\ cop[c].err
    /\ cache.hits = 1 /\ cache.misses = 1
    /\ \E fk \in StoreKeys : redis[fk].has

\* ---------------------------------------------------------------------------
\* Namespaces on the shared connection
\* ---------------------------------------------------------------------------

StartsWith(cs, pre) == Len(cs) >= Len(pre) /\ SubSeq(cs, 1, Len(pre)) = pre

\* every key the Verifier can form, as the store sees it
VerifierTexts == {KeyText(k) : k \in Keys}

\* the keys a store call names, and the keys a SCAN handed back
Named(sc) == IF sc.cmd = "SCAN" THEN sc.out ELSE Range(sc.keys)

C36_State ==
  /\ \A k \in Keys : ~StartsWith(KeyText(k), cache.prefix)
  /\ \A c \in Callers :
       \A i \in 1..Len(cop[c].calls) :
         /\ \A fk \in Range(cop[c].calls[i].keys) : StartsWith(fk, cache.prefix)
         /\ Named(cop[c].calls[i]) \cap VerifierTexts = {}

C36_Step == (\E c \in Callers : Acts(c)) => \A fk \in VerifierKeys : redis'[fk] = redis[fk]

\* C36: the default instance (prefix "auth:") and the Verifier never meet:
\* every key and pattern a cache operation sends starts with the prefix, no
\* store call of get, set, delete, deleteByPattern, mget or mset names or is
\* handed a Verifier key, no cache operation changes what the store holds
\* under a Verifier key, and no Verifier key starts with the cache prefix.
C36_NamespacesDisjoint == []C36_State /\ [][C36_Step]_vars

C36_Witness ==
  \E c \in Callers :
    /\ cop[c].name = "deleteByPattern" /\ cop[c].key = <<"*">>
    /\ cop[c].st = "done" /\ ~cop[c].err
    /\ cop[c].matched # {}
    /\ \A fk \in cop[c].matched : ~redis[fk].has
    /\ \A fk \in VerifierKeys : redis[fk].has

C37_State ==
  \A c \in Callers :
    \A i \in 1..Len(cop[c].calls) : RateKey \notin Named(cop[c].calls[i])

C37_Step == (\E c \in Callers : Acts(c)) => redis'[RateKey] = redis[RateKey]

\* C37: no operation of the default instance (prefix "auth:") reads,
\* overwrites or deletes the rate limiter's key "auth:ratelimit:x": no store
\* call of a cache operation names it or is handed it by SCAN, and no cache
\* operation changes what the store holds under it.
C37_LimiterUntouched == []C37_State /\ [][C37_Step]_vars

\* ---------------------------------------------------------------------------
\* The application's wrapper around the Gate
\* ---------------------------------------------------------------------------

\* a request entered the application's middleware in this step
Entered(p) == gate'[p] # gate[p] /\ gate[p].st \in {"none", "done"} /\ pc[p] = "idle"

C38_Step ==
  \A p \in Procs :
    Entered(p) =>
      LET r == gate'[p].req
          d == GateDecision(env, r)
      IN /\ GateRequest(p, r)
         /\ r.path \in excludedPaths =>
              /\ d = "next" /\ ~isAuthEndpoint(r.path)
              /\ gate'[p].nextCalls = 1 /\ gate'[p].status = 0
              /\ gate'[p].verifier = <<>> /\ pc'[p] = "idle"

\* C38: for every path, body, configuration and Verifier result, a request
\* entering the excluded-path wrapper leaves the same state as the same
\* request entering validateTurnstileToken directly: the same outcome (next,
\* 400, 403 or the pending Verifier call) and the same Verifier invocations;
\* for /health, /token, /get-session and /jwks that is next() with no
\* Verifier call.
C38_WrapperAddsNothing == [][C38_Step]_vars

C38_Witness ==
  \E p \in Procs :
    /\ gate[p].st = "done" /\ gate[p].req.path = "/jwks" /\ gate[p].req.hasBody = FALSE
    /\ gate[p].nextCalls = 1 /\ gate[p].verifier = <<>>
    /\ env.TURNSTILE_ENABLED = STrue

====
